---- MODULE Spec2Model ----
(***************************************************************************)
(* claude-tap: the proxy/trace pipeline.                                   *)
(*                                                                         *)
(*   proxy_handler (proxy.py)  ->  TraceWriter.write (trace.py)            *)
(*                             ->  LiveViewerServer.broadcast (live.py)    *)
(*                             ->  observers of /events (_handle_sse)      *)
(*                                                                         *)
(* Every coroutine is cut at its suspension points: one action is the code *)
(* a task runs between two of them on the single-threaded event loop.      *)
(* `await lock.acquire()` suspends only when the lock is held or has       *)
(* waiters (asyncio.Lock is FIFO); awaited I/O (request.read, the upstream *)
(* request and read, a write to a client or an observer) may suspend.      *)
(***************************************************************************)
EXTENDS Integers, Sequences, FiniteSets, TLC

\* Number of proxied calls of the session, and of /events observers.
NumCalls == 2
NumObservers == 2

Calls == 1..NumCalls
Observers == 1..NumObservers

VARIABLES
    pc,            \* per call: the position of its proxy_handler coroutine
    arrived,       \* calls in the order their handling began
    turn_counter,  \* ctx["turn_counter"]
    turn,          \* per call: the local `turn` (0: not assigned yet)
    req_body,      \* per call: the parsed request body
    up,            \* per call: what the upstream answered
    record,        \* per call: the Trace Record built for it
    client,        \* per call: the response the original client got
    errors,        \* the calls whose upstream error the diagnostic log holds
    upstream,      \* per call: the chunks the upstream's stream is made of
    chunks,        \* per call: the chunks received from the upstream so far
    sent,          \* per call: the chunks handed to the client's transport
    fed,           \* per call: the chunks fed to the reassembler
    reassembler,   \* per call: the SSEReassembler of _handle_streaming
    client_gone,   \* per call: the original client has disconnected
    req_headers,   \* per call: request.headers, as a list of items
    fwd_headers,   \* per call: the headers passed to the upstream request
    client_headers, \* per call: the headers of the response the client got
    writer_lock,   \* TraceWriter._lock: 0 free, else the call holding it
    log,           \* the lines of the JSONL file, flushed
    count,         \* TraceWriter.count
    live_lock,     \* LiveViewerServer._lock: 0 free, else the observer replaying
    live_waiters,  \* the tasks suspended in LiveViewerServer._lock.acquire(), FIFO
    records,       \* LiveViewerServer._records, the backlog
    sse_clients,   \* LiveViewerServer._sse_clients
    bidx,          \* per call: the list iterator's index in broadcast's loop
    bcur,          \* per call: the client whose write broadcast awaits
    disconnected,  \* per call: broadcast's local list `disconnected`
    ost,           \* per observer: the position of its _handle_sse coroutine
    broken,        \* per observer: its connection is lost, writes to it raise
    got,           \* per observer: the record frames written to it, in order
    test_bytes,    \* a reassembler fed on its own: the bytes to feed it
    test_frames,   \*   or the frames to feed it, their payloads parsed
    test_fed,      \*   how many of them have been fed
    test_reassembler, \* and the reassembler
    headers,       \* filter_headers called on its own: its argument
    filtered,      \*   and its result
    test_writer,   \* a TraceWriter and its callers: the writer object,
    test_summaries, \*  the values get_summary has returned,
    test_session,  \*   the request handlers and the shutdown sequence
    live_stop      \* LiveViewerServer.stop(): the shutdown event and the
                   \*   position of the stop() coroutine

streamVars == <<upstream, chunks, sent, fed, reassembler, client_gone>>
hdrVars == <<req_headers, fwd_headers, client_headers>>

\* The functions exercised on their own.
writerTestVars == <<test_writer, test_summaries, test_session>>
pureVars == <<test_bytes, test_frames, test_fed, test_reassembler, headers,
              filtered, writerTestVars, live_stop>>

vars == <<pc, arrived, turn_counter, turn, req_body, up, record, client,
          errors, streamVars, hdrVars,
          writer_lock, log, count, live_lock, live_waiters, records,
          sse_clients, bidx, bcur, disconnected, ost, broken, got, pureVars>>

callVars == <<pc, arrived, turn_counter, turn, req_body, up, record, client,
              errors, streamVars, hdrVars>>
proxyVars == <<callVars, pureVars>>
writerVars == <<writer_lock, log, count>>
liveVars == <<live_lock, live_waiters, records, sse_clients, bidx, bcur, disconnected>>
obsVars == <<ost, broken, got>>

----------------------------------------------------------------------------
(* Values.                                                                 *)

\* A parsed body: the tagged union {structured value, raw string, absent}.
\* tag "dict" is a JSON object, "json" any other JSON value, "str" the raw
\* decoded text, "null" Python's None.
BodyValue(tag, stream) == [tag |-> tag, stream |-> stream]
Null == BodyValue("null", FALSE)

\* Request body bytes, by what they hold.
ReqBytesAll == {"empty", "object", "object_stream", "array", "text", "deep"}

\* Response body bytes: how they are encoded on the wire and what the
\* payload holds.
RespKinds == {"empty", "object", "array", "text"}
Wires == {"plain", "gzip", "deflate"}
RespBytesAll == [wire : Wires, kind : RespKinds]
NoBytes == [wire |-> "plain", kind |-> "none"]
ErrorText == [wire |-> "plain", kind |-> "error_text"]
InternalError == [wire |-> "plain", kind |-> "internal_error"]

\* Content-Encoding as declared by the upstream ("" when absent).
EncodingsAll == {"", "gzip", "deflate"}
StatusesAll == {200, 201, 500}

NoUp == [status |-> 0, encoding |-> "", bytes |-> NoBytes]
NoRecord == [call |-> 0, turn |-> 0, req_body |-> Null, status |-> 0,
             resp_body |-> Null, sse |-> FALSE, sse_events |-> <<>>,
             req_headers |-> <<>>, resp_headers |-> <<>>]
NoResponse == [status |-> 0, body |-> NoBytes]

IsDict(v) == v.tag = "dict"

\* proxy.py 75-78: json.loads(body) if body else None, falling back to the
\* decoded text.
ParseRequest(b) ==
    CASE b = "empty" -> Null
      [] b = "object" -> BodyValue("dict", FALSE)
      [] b = "object_stream" -> BodyValue("dict", TRUE)
      [] b = "array" -> BodyValue("json", FALSE)
      [] OTHER -> BodyValue("str", FALSE)

\* proxy.py 75-78: json.loads(body) raises RecursionError on a body nested
\* deeper than the interpreter's recursion limit ("deep"); it is a
\* RuntimeError, which `except (json.JSONDecodeError, ValueError)` does not
\* catch.
RequestRecurses(b) == b = "deep"

\* proxy.py 80-82
IsStreaming(v) == IF IsDict(v) THEN v.stream ELSE FALSE

\* b"" is falsy; anything compressed has at least a header.
NonEmpty(bytes) == ~(bytes.wire = "plain" /\ bytes.kind = "empty")

\* proxy.py 195-204: decompress a copy when gzip or deflate is declared;
\* when decompression raises the raw bytes are kept.
Decompress(encoding, bytes) ==
    IF NonEmpty(bytes) /\ encoding \in {"gzip", "deflate"}
    THEN IF bytes.wire = encoding
         THEN [wire |-> "plain", kind |-> bytes.kind]
         ELSE bytes
    ELSE bytes

\* proxy.py 206-209: json.loads(decode_bytes) if decode_bytes else None,
\* falling back to the decoded text (compressed bytes are no JSON).
ParseResponse(bytes) ==
    CASE ~NonEmpty(bytes) -> Null
      [] bytes.wire # "plain" -> BodyValue("str", FALSE)
      [] bytes.kind = "object" -> BodyValue("dict", FALSE)
      [] bytes.kind = "array" -> BodyValue("json", FALSE)
      [] OTHER -> BodyValue("str", FALSE)

----------------------------------------------------------------------------
(* filter_headers (proxy.py)                                               *)

\* proxy.py 26-37
HOP_BY_HOP == {"connection", "keep-alive", "proxy-authenticate",
               "proxy-authorization", "te", "trailers", "transfer-encoding",
               "upgrade"}

\* proxy.py 46: the header names whose values are redacted.
CredentialNames == {"x-api-key", "authorization"}

\* proxy.py 47: the length up to which a value is masked whole, and the
\* length of the prefix kept of a longer one.
RedactKeep == 12

\* Header names as clients spell them, and str.lower() of each.
HeaderNames == {"x-api-key", "X-Api-Key", "Authorization", "AUTHORIZATION",
                "Connection", "content-type", "Host", "host"}
Lower(k) ==
    CASE k = "X-Api-Key" -> "x-api-key"
      [] k \in {"Authorization", "AUTHORIZATION"} -> "authorization"
      [] k = "Connection" -> "connection"
      [] k = "Host" -> "host"
      [] k = "Content-Type" -> "content-type"
      [] k = "Content-Encoding" -> "content-encoding"
      [] k = "Transfer-Encoding" -> "transfer-encoding"
      [] k = "Accept-Encoding" -> "accept-encoding"
      [] OTHER -> k

\* proxy.py 47: v[:12] + "..." if len(v) > 12 else "***"
Redact(v) ==
    IF Len(v) > RedactKeep
    THEN SubSeq(v, 1, RedactKeep) \o <<".", ".", ".">>
    ELSE <<"*", "*", "*">>

\* out[k] = v on a dict kept as the list of its items.
Put(out, k, v) ==
    IF \E i \in 1..Len(out) : out[i].name = k
    THEN [i \in 1..Len(out) |->
            IF out[i].name = k THEN [name |-> k, value |-> v] ELSE out[i]]
    ELSE Append(out, [name |-> k, value |-> v])

\* proxy.py 42-50: the loop over headers.items().
RECURSIVE FilterInto(_, _, _)
FilterInto(out, items, redact_keys) ==
    IF items = <<>> THEN out
    ELSE LET k == Head(items).name
             v == Head(items).value IN
         IF Lower(k) \in HOP_BY_HOP
         THEN FilterInto(out, Tail(items), redact_keys)
         ELSE IF redact_keys /\ Lower(k) \in CredentialNames
         THEN FilterInto(Put(out, k, Redact(v)), Tail(items), redact_keys)
         ELSE FilterInto(Put(out, k, v), Tail(items), redact_keys)

\* proxy.py 40-50: filter_headers(headers, redact_keys=...)
FilterHeaders(items, redact_keys) == FilterInto(<<>>, items, redact_keys)

\* A header value is the list of its characters.
Gzip == <<"g", "z", "i", "p">>
Deflate == <<"d", "e", "f", "l", "a", "t", "e">>
Identity == <<"i", "d", "e", "n", "t", "i", "t", "y">>
Chunked == <<"c", "h", "u", "n", "k", "e", "d">>
Json == <<"j", "s", "o", "n">>

\* dict.pop(k, None) on a dict kept as the list of its items.
Pop(out, k) == SelectSeq(out, LAMBDA item : item.name # k)

\* proxy.py 68-69, 92-93: the headers passed to the upstream request:
\* filter_headers(request.headers) without the key "Host" and, for a
\* streaming request, with Accept-Encoding set to identity.
ForwardHeaders(items, is_streaming) ==
    LET fwd == Pop(FilterHeaders(items, FALSE), "Host") IN
    IF is_streaming THEN Put(fwd, "Accept-Encoding", Identity) ELSE fwd

\* upstream_resp.headers: what the upstream sends with a body in the given
\* Content-Encoding.
UpstreamHeaders(encoding) ==
    <<[name |-> "Content-Type", value |-> Json],
      [name |-> "Transfer-Encoding", value |-> Chunked]>> \o
    (CASE encoding = "gzip" -> <<[name |-> "Content-Encoding", value |-> Gzip]>>
       [] encoding = "deflate" -> <<[name |-> "Content-Encoding", value |-> Deflate]>>
       [] OTHER -> <<>>)

\* proxy.py 132, 229: the headers of the response to the client, the
\* upstream's without the hop-by-hop ones.
ResponseHeaders(items) ==
    SelectSeq(items, LAMBDA item : Lower(item.name) \notin HOP_BY_HOP)

----------------------------------------------------------------------------
(* The Trace Record (proxy.py, trace.py)                                   *)

\* proxy.py 234-267: `sse` says whether the record has the sse_events key.
\* The request headers are stored redacted, the response headers filtered.
BuildRecord(c, t, rb, status, body, sse, sse_events) ==
    [call |-> c, turn |-> t, req_body |-> rb, status |-> status,
     resp_body |-> body, sse |-> sse, sse_events |-> sse_events,
     req_headers |-> FilterHeaders(req_headers[c], TRUE),
     resp_headers |-> FilterHeaders(UpstreamHeaders(up[c].encoding), FALSE)]

\* trace.py 50-69: req_body.get(...) and resp_body.get(...) raise
\* AttributeError on anything that is not a dict.
UpdateStatsRaises(rec) == ~IsDict(rec.req_body) \/ ~IsDict(rec.resp_body)

----------------------------------------------------------------------------
(* SSEReassembler (sse.py)                                                 *)

\* Bytes are one-character strings; "C3" and "A9" are the two bytes of a
\* two-byte UTF-8 character, "U+00E9" that character and "U+FFFD" the
\* replacement character of decode(errors="replace").
LF == "\n"
CR == "\r"
SP == " "
Whitespace == {SP, CR, LF}

EventField == <<"e", "v", "e", "n", "t", ":">>
DataField == <<"d", "a", "t", "a", ":">>
ToolUse == <<"t", "o", "o", "l", "_", "u", "s", "e">>
InputJsonDelta == <<"i", "n", "p", "u", "t", "_", "j", "s", "o", "n", "_", "d", "e", "l", "t", "a">>
MessageStart == <<"m", "e", "s", "s", "a", "g", "e", "_", "s", "t", "a", "r", "t">>
ContentBlockStart == <<"c", "o", "n", "t", "e", "n", "t", "_", "b", "l", "o", "c", "k", "_", "s", "t", "a", "r", "t">>
ContentBlockDelta == <<"c", "o", "n", "t", "e", "n", "t", "_", "b", "l", "o", "c", "k", "_", "d", "e", "l", "t", "a">>
ContentBlockStop == <<"c", "o", "n", "t", "e", "n", "t", "_", "b", "l", "o", "c", "k", "_", "s", "t", "o", "p">>
MessageDelta == <<"m", "e", "s", "s", "a", "g", "e", "_", "d", "e", "l", "t", "a">>
Ping == <<"p", "i", "n", "g">>

\* self._current_event is None
NoEvent == <<"None">>

\* Python values, as json.loads gives them: a dict is the list of its
\* items in insertion order, a str the list of its characters; None is
\* Null.
PyDict(items) == [tag |-> "dict", items |-> items]
Item(k, v) == [name |-> k, value |-> v]
PyList(elems) == [tag |-> "list", elems |-> elems]
PyStr(text) == [tag |-> "str", text |-> text]
PyInt(n) == [tag |-> "int", n |-> n]
IsList(v) == v.tag = "list"
IsStr(v) == v.tag = "str"
IsInt(v) == v.tag = "int"
EmptyObject == PyDict(<<>>)

\* k in d, d.get(k, default), d[k] = v and del d[k] on a dict d.
Has(d, k) == \E i \in 1..Len(d.items) : d.items[i].name = k
Get(d, k, default) ==
    IF Has(d, k)
    THEN d.items[CHOOSE i \in 1..Len(d.items) : d.items[i].name = k].value
    ELSE default
SetItem(d, k, v) == PyDict(Put(d.items, k, v))
DelItem(d, k) == PyDict(Pop(d.items, k))

\* for k, v in items: d[k] = v
RECURSIVE PutAll(_, _)
PutAll(d, items) ==
    IF items = <<>> THEN d
    ELSE PutAll(SetItem(d, Head(items).name, Head(items).value), Tail(items))

\* bool(v)
Truthy(v) ==
    CASE v.tag = "dict" -> v.items # <<>>
      [] v.tag = "list" -> v.elems # <<>>
      [] v.tag = "str" -> v.text # <<>>
      [] v.tag = "int" -> v.n # 0
      [] OTHER -> FALSE

\* list[idx] for an int idx, negative indices counting from the end: whether
\* it is in range, and the place it addresses.
ValidIndex(elems, idx) == -Len(elems) <= idx /\ idx < Len(elems)
Place(elems, idx) == IF idx >= 0 THEN idx + 1 ELSE Len(elems) + idx + 1

\* s without its whitespace characters.
Squeeze(s) == SelectSeq(s, LAMBDA b : b \notin Whitespace)

\* The payloads of the frames of a tool_use block as the upstream writes
\* them, the members of each object written as one character, and what
\* json.loads makes of them: the block's start with an empty input, a
\* delta that carries the first piece of the input's JSON text, and the
\* block's stop.
ToolStartJson ==
    <<"{", "\"index\":0,\"content_block\":{\"type\":\"tool_use\",\"input\":{}}", "}">>
ToolStartData ==
    PyDict(<<Item("index", PyInt(0)),
             Item("content_block", PyDict(<<Item("type", PyStr(ToolUse)),
                                            Item("input", EmptyObject)>>))>>)
InputDeltaJson ==
    <<"{", "\"index\":0,\"delta\":{\"type\":\"input_json_delta\",\"partial_json\":\"{\"}", "}">>
InputDeltaData ==
    PyDict(<<Item("index", PyInt(0)),
             Item("delta", PyDict(<<Item("type", PyStr(InputJsonDelta)),
                                    Item("partial_json", PyStr(<<"{">>))>>))>>)
BlockStopJson == <<"{", "\"index\":0", "}">>
BlockStopData == PyDict(<<Item("index", PyInt(0))>>)

\* json.loads(raw) succeeds. The JSON documents written out in the byte
\* streams are the empty object, a number and the payloads of a tool_use
\* block's frames; json.loads accepts whitespace around the tokens of a
\* document.
JsonParses(raw) ==
    Squeeze(raw) \in {<<"{", "}">>, <<"1">>, ToolStartJson, InputDeltaJson,
                      BlockStopJson}

\* A run of opening brackets longer than the interpreter's recursion limit,
\* written as one character. json.loads of a text that starts with it
\* raises RecursionError (a RuntimeError, no ValueError) from the scanner.
DeepNesting == "[[["
JsonRecurses(raw) == Squeeze(raw) # <<>> /\ Head(Squeeze(raw)) = DeepNesting

\* sse.py 36-39: json.loads(raw_data), the raw string when it does not
\* parse.
ParseJson(raw) ==
    CASE Squeeze(raw) = <<"{", "}">> -> EmptyObject
      [] Squeeze(raw) = <<"1">> -> PyInt(1)
      [] Squeeze(raw) = ToolStartJson -> ToolStartData
      [] Squeeze(raw) = InputDeltaJson -> InputDeltaData
      [] Squeeze(raw) = BlockStopJson -> BlockStopData
      [] OTHER -> PyStr(raw)

\* bytes.decode("utf-8", errors="replace")
RECURSIVE Decode(_)
Decode(bytes) ==
    IF bytes = <<>> THEN <<>>
    ELSE IF Head(bytes) = "C3" /\ Len(bytes) >= 2 /\ bytes[2] = "A9"
         THEN <<"U+00E9">> \o Decode(Tail(Tail(bytes)))
    ELSE IF Head(bytes) \in {"C3", "A9"}
         THEN <<"U+FFFD">> \o Decode(Tail(bytes))
    ELSE <<Head(bytes)>> \o Decode(Tail(bytes))

\* str.rstrip("\r")
RECURSIVE RStripCR(_)
RStripCR(line) ==
    IF line # <<>> /\ line[Len(line)] = CR
    THEN RStripCR(SubSeq(line, 1, Len(line) - 1))
    ELSE line

\* str.strip()
RECURSIVE Strip(_)
Strip(t) ==
    IF t = <<>> THEN t
    ELSE IF Head(t) \in Whitespace THEN Strip(Tail(t))
    ELSE IF t[Len(t)] \in Whitespace THEN Strip(SubSeq(t, 1, Len(t) - 1))
    ELSE t

\* str.startswith(prefix)
StartsWith(line, prefix) ==
    Len(line) >= Len(prefix) /\ SubSeq(line, 1, Len(prefix)) = prefix

\* "\n".join(lines)
RECURSIVE Join(_)
Join(lines) ==
    IF lines = <<>> THEN <<>>
    ELSE IF Len(lines) = 1 THEN lines[1]
    ELSE lines[1] \o <<LF>> \o Join(Tail(lines))

\* sse.py 13-18: SSEReassembler(). `raised` is no attribute of the object:
\* it says that the last feed_bytes call ended in an exception.
NewReassembler ==
    [events |-> <<>>, buf |-> <<>>, current_event |-> NoEvent,
     current_data_lines |-> <<>>, snapshot |-> Null, raised |-> FALSE]

\* The delta types of content_block_delta.
TextDelta == <<"t", "e", "x", "t", "_", "d", "e", "l", "t", "a">>
ThinkingDelta == <<"t", "h", "i", "n", "k", "i", "n", "g", "_", "d", "e", "l", "t", "a">>

\* sse.py 65-66: while len(content) <= idx: content.append({})
RECURSIVE Extend(_, _)
Extend(elems, idx) ==
    IF Len(elems) <= idx THEN Extend(Append(elems, EmptyObject), idx) ELSE elems

\* sse.py 59-67: content_block_start on a snapshot that is not None. An
\* exception (a snapshot that is no dict, a content that is no list, an
\* index that is no int or is out of range) ends the statement where it
\* is raised and is swallowed (sse.py 98-99); what was assigned before
\* stays.
BlockStart(snapshot, data) ==
    LET block == Get(data, "content_block", EmptyObject) IN
    IF ~IsDict(snapshot) THEN snapshot
    ELSE LET s1 == IF Has(snapshot, "content") THEN snapshot
                   ELSE SetItem(snapshot, "content", PyList(<<>>))
             content == Get(s1, "content", Null) IN
         IF ~IsList(content) THEN s1
         ELSE LET idx == Get(data, "index", PyInt(Len(content.elems))) IN
              IF ~IsInt(idx) THEN s1
              ELSE LET elems == Extend(content.elems, idx.n) IN
                   IF ~ValidIndex(elems, idx.n)
                   THEN SetItem(s1, "content", PyList(elems))
                   ELSE SetItem(s1, "content",
                                PyList([elems EXCEPT ![Place(elems, idx.n)] = block]))

\* sse.py 69-72, 80-82: the block a content_block_delta or
\* content_block_stop addresses: `idx < len(content)` holds and
\* content[idx] is a dict the statements that follow can work on.
Addressed(snapshot, data) ==
    LET idx == Get(data, "index", PyInt(0)) IN
    /\ IsDict(snapshot)
    /\ IsList(Get(snapshot, "content", PyList(<<>>)))
    /\ IsInt(idx)
    /\ ValidIndex(Get(snapshot, "content", PyList(<<>>)).elems, idx.n)
    /\ IsDict(Get(snapshot, "content", Null).elems[
                  Place(Get(snapshot, "content", Null).elems, idx.n)])

\* snapshot["content"][idx] of an addressed block, and the snapshot with
\* that block replaced.
BlockAt(snapshot, data) ==
    LET elems == Get(snapshot, "content", Null).elems IN
    elems[Place(elems, Get(data, "index", PyInt(0)).n)]
WithBlock(snapshot, data, block) ==
    LET elems == Get(snapshot, "content", Null).elems IN
    SetItem(snapshot, "content",
            PyList([elems EXCEPT ![Place(elems, Get(data, "index", PyInt(0)).n)] = block]))

\* The delta's text put in front of the text the block holds.
AddText_InFront(block, key, delta, field) ==
    LET old == Get(block, key, PyStr(<<>>))
        new == Get(delta, field, PyStr(<<>>)) IN
    IF IsStr(old) /\ IsStr(new)
    THEN SetItem(block, key, PyStr(new.text \o old.text))
    ELSE block

\* sse.py 74, 76, 78: block[key] = block.get(key, "") + delta.get(field, "");
\* adding what is no str raises before the assignment.
AddText(block, key, delta, field) ==
    LET old == Get(block, key, PyStr(<<>>))
        new == Get(delta, field, PyStr(<<>>)) IN
    IF IsStr(old) /\ IsStr(new)
    THEN SetItem(block, key, PyStr(old.text \o new.text))
    ELSE block

\* content_block_delta padding the content list up to the index it is
\* addressed at, as content_block_start does.
BlockDelta_Padding(snapshot, data) ==
    LET idx == Get(data, "index", PyInt(0))
        delta == Get(data, "delta", EmptyObject)
        content == IF IsDict(snapshot)
                   THEN Get(snapshot, "content", PyList(<<>>))
                   ELSE Null IN
    IF IsList(content) /\ IsInt(idx) /\ idx.n >= 0 /\ IsDict(delta)
    THEN LET elems == Extend(content.elems, idx.n) IN
         SetItem(snapshot, "content",
                 PyList([elems EXCEPT ![idx.n + 1] =
                            AddText(elems[idx.n + 1], "text", delta, "text")]))
    ELSE snapshot

\* sse.py 68-78: content_block_delta
BlockDelta(snapshot, data) ==
    LET delta == Get(data, "delta", EmptyObject) IN
    IF ~Addressed(snapshot, data) \/ ~IsDict(delta) THEN snapshot
    ELSE LET block == BlockAt(snapshot, data)
             type == Get(delta, "type", Null) IN
         IF ~IsStr(type) THEN snapshot
         ELSE IF type.text = TextDelta
         THEN WithBlock(snapshot, data, AddText(block, "text", delta, "text"))
         ELSE IF type.text = ThinkingDelta
         THEN WithBlock(snapshot, data, AddText(block, "thinking", delta, "thinking"))
         ELSE IF type.text = InputJsonDelta
         THEN WithBlock(snapshot, data,
                        AddText(block, "_partial_json", delta, "partial_json"))
         ELSE snapshot

\* sse.py 79-88: content_block_stop. json.loads of a buffer that is no str
\* raises a TypeError, and of a buffer nested too deep a RecursionError,
\* which the inner `except` does not catch: the exception passes the
\* `del` and is swallowed at sse.py 98-99, and the buffer stays.
BlockStop(snapshot, data) ==
    IF ~Addressed(snapshot, data) THEN snapshot
    ELSE LET block == BlockAt(snapshot, data) IN
         IF ~Has(block, "_partial_json") THEN snapshot
         ELSE LET buffer == Get(block, "_partial_json", Null) IN
              IF ~IsStr(buffer) \/ JsonRecurses(buffer.text) THEN snapshot
              ELSE WithBlock(snapshot, data,
                             DelItem(IF JsonParses(buffer.text)
                                     THEN SetItem(block, "input", ParseJson(buffer.text))
                                     ELSE block,
                                     "_partial_json"))

\* message_delta putting the event's usage in the place of the snapshot's.
TopDelta_Overwrite(snapshot, data) ==
    LET delta == Get(data, "delta", EmptyObject)
        usage == Get(data, "usage", EmptyObject) IN
    IF ~IsDict(delta) \/ ~IsDict(snapshot) THEN snapshot
    ELSE LET s1 == PutAll(snapshot, delta.items) IN
         IF ~Truthy(usage) THEN s1 ELSE SetItem(s1, "usage", usage)

\* sse.py 89-97: message_delta. The keys of the delta are assigned first;
\* an exception in the usage update leaves them assigned.
TopDelta(snapshot, data) ==
    LET delta == Get(data, "delta", EmptyObject)
        usage == Get(data, "usage", EmptyObject) IN
    IF ~IsDict(delta) \/ ~IsDict(snapshot) THEN snapshot
    ELSE LET s1 == PutAll(snapshot, delta.items) IN
         IF ~Truthy(usage) THEN s1
         ELSE LET s2 == IF Has(s1, "usage") THEN s1
                        ELSE SetItem(s1, "usage", EmptyObject)
                  cur == Get(s2, "usage", Null) IN
              IF ~IsDict(cur) \/ ~IsDict(usage) THEN s2
              ELSE SetItem(s2, "usage", PutAll(cur, usage.items))

\* _accumulate starting from an empty snapshot when no message_start came.
Accumulate_Unstarted(snapshot, event_type, data) ==
    LET started == IF snapshot = Null THEN EmptyObject ELSE snapshot IN
    IF ~IsDict(data) THEN snapshot
    ELSE IF event_type = MessageStart THEN Get(data, "message", EmptyObject)
    ELSE IF event_type = ContentBlockStart THEN BlockStart(started, data)
    ELSE IF event_type = ContentBlockDelta THEN BlockDelta(started, data)
    ELSE IF event_type = ContentBlockStop THEN BlockStop(started, data)
    ELSE IF event_type = MessageDelta THEN TopDelta(started, data)
    ELSE snapshot

\* sse.py 46-99: _accumulate(event_type, data): a payload that is no dict
\* changes nothing; message_start sets the snapshot to a copy of the
\* payload's "message" (absent: {}); before that the snapshot is None and
\* every other event leaves it so.
Accumulate(snapshot, event_type, data) ==
    IF ~IsDict(data) THEN snapshot
    ELSE IF event_type = MessageStart THEN Get(data, "message", EmptyObject)
    ELSE IF snapshot = Null THEN snapshot
    ELSE IF event_type = ContentBlockStart THEN BlockStart(snapshot, data)
    ELSE IF event_type = ContentBlockDelta THEN BlockDelta(snapshot, data)
    ELSE IF event_type = ContentBlockStop THEN BlockStop(snapshot, data)
    ELSE IF event_type = MessageDelta THEN TopDelta(snapshot, data)
    ELSE snapshot

\* sse.py 34-44: a frame ends: the event and its payload go to the events
\* list and to _accumulate, and the pending frame is reset.
Dispatch(r, data) ==
    [r EXCEPT !.events = Append(r.events,
                                [event |-> r.current_event, data |-> data]),
              !.snapshot = Accumulate(r.snapshot, r.current_event, data),
              !.current_event = NoEvent,
              !.current_data_lines = <<>>]

\* _feed_line(line) with an `event:` line that keeps the data lines
\* collected so far.
FeedLine_KeepData(r, decoded) ==
    LET line == RStripCR(decoded) IN
    IF StartsWith(line, EventField)
    THEN [r EXCEPT !.current_event =
                      Strip(SubSeq(line, Len(EventField) + 1, Len(line)))]
    ELSE IF StartsWith(line, DataField)
    THEN [r EXCEPT !.current_data_lines =
                      Append(r.current_data_lines,
                             Strip(SubSeq(line, Len(DataField) + 1, Len(line))))]
    ELSE IF line = <<>> /\ r.current_event # NoEvent
    THEN Dispatch(r, ParseJson(Join(r.current_data_lines)))
    ELSE r

\* sse.py 26-44: _feed_line(line). An exception of json.loads that is no
\* ValueError leaves _feed_line before the event is appended: the pending
\* frame stays as it is.
FeedLine(r, decoded) ==
    LET line == RStripCR(decoded) IN
    IF StartsWith(line, EventField)
    THEN [r EXCEPT !.current_event =
                      Strip(SubSeq(line, Len(EventField) + 1, Len(line))),
                   !.current_data_lines = <<>>]
    ELSE IF StartsWith(line, DataField)
    THEN [r EXCEPT !.current_data_lines =
                      Append(r.current_data_lines,
                             Strip(SubSeq(line, Len(DataField) + 1, Len(line))))]
    ELSE IF line = <<>> /\ r.current_event # NoEvent
    THEN IF JsonRecurses(Join(r.current_data_lines))
         THEN [r EXCEPT !.raised = TRUE]
         ELSE Dispatch(r, ParseJson(Join(r.current_data_lines)))
    ELSE r

\* The index of the first "\n" of a buffer that holds one.
FirstLF(buf) == CHOOSE k \in 1..Len(buf) :
                    buf[k] = LF /\ \A j \in 1..(k - 1) : buf[j] # LF

\* sse.py 22-24: while b"\n" in self._buf: split off a line and feed it.
\* The line is taken off the buffer before it is fed; an exception ends the
\* loop with the rest of the buffer unread.
RECURSIVE FeedLines(_)
FeedLines(r) ==
    IF ~r.raised /\ \E k \in 1..Len(r.buf) : r.buf[k] = LF
    THEN LET k == FirstLF(r.buf) IN
         FeedLines(FeedLine([r EXCEPT !.buf = SubSeq(r.buf, k + 1, Len(r.buf))],
                            Decode(SubSeq(r.buf, 1, k - 1))))
    ELSE r

\* feed_bytes(chunk) taking the chunk's last, unterminated line for a whole
\* line instead of keeping it in the buffer.
FeedBytes_Unbuffered(r, chunk) ==
    LET q == FeedLines([r EXCEPT !.buf = r.buf \o chunk, !.raised = FALSE]) IN
    IF q.buf = <<>> THEN q
    ELSE FeedLine([q EXCEPT !.buf = <<>>], Decode(q.buf))

\* sse.py 20-24: feed_bytes(chunk)
FeedBytes(r, chunk) ==
    FeedLines([r EXCEPT !.buf = r.buf \o chunk, !.raised = FALSE])

\* sse.py 101-104: reconstruct(), None until a message_start came.
Reconstruct(r) == r.snapshot

\* The concatenation of a list of chunks.
RECURSIVE Flatten(_)
Flatten(cs) == IF cs = <<>> THEN <<>> ELSE Head(cs) \o Flatten(Tail(cs))

----------------------------------------------------------------------------
(* TraceWriter (trace.py)                                                  *)

\* trace.py 19-30: TraceWriter(path, live_server). `file` is the lines of
\* the JSONL file in order, `broadcast` the records handed to
\* live_server.broadcast; `raised` is no attribute of the object: it says
\* that the last write call ended in an exception.
NewWriter ==
    [file |-> <<>>, closed |-> FALSE, count |-> 0,
     total_input_tokens |-> 0, total_output_tokens |-> 0,
     total_cache_read_tokens |-> 0, total_cache_create_tokens |-> 0,
     models_used |-> EmptyObject, broadcast |-> <<>>, raised |-> FALSE]

Unknown == PyStr(<<"u", "n", "k", "n", "o", "w", "n">>)

\* A dict key must be hashable: a list or a dict raises TypeError.
Hashable(v) == v.tag \notin {"list", "dict"}

\* trace.py 64-69: the four totals are added to one after the other; adding
\* what is no number raises with the totals before it already updated.
AddTokens(w, usage) ==
    LET input == Get(usage, "input_tokens", PyInt(0))
        output == Get(usage, "output_tokens", PyInt(0))
        cache_read == Get(usage, "cache_read_input_tokens", PyInt(0))
        cache_create == Get(usage, "cache_creation_input_tokens", PyInt(0)) IN
    IF ~IsInt(input) THEN [w EXCEPT !.raised = TRUE]
    ELSE LET w1 == [w EXCEPT !.total_input_tokens = @ + input.n] IN
    IF ~IsInt(output) THEN [w1 EXCEPT !.raised = TRUE]
    ELSE LET w2 == [w1 EXCEPT !.total_output_tokens = @ + output.n] IN
    IF ~IsInt(cache_read) THEN [w2 EXCEPT !.raised = TRUE]
    ELSE LET w3 == [w2 EXCEPT !.total_cache_read_tokens = @ + cache_read.n] IN
    IF ~IsInt(cache_create) THEN [w3 EXCEPT !.raised = TRUE]
    ELSE [w3 EXCEPT !.total_cache_create_tokens = @ + cache_create.n]

\* trace.py 50-69: _update_stats(record). req_body.get raises on a request
\* body that is no dict, before any counter is touched; resp_body.get and
\* usage.get raise on what is no dict, after the model was counted. A
\* falsy usage is replaced by the response body itself.
UpdateStats(w, rec) ==
    IF ~IsDict(rec.req_body) THEN [w EXCEPT !.raised = TRUE]
    ELSE LET model == Get(rec.req_body, "model", Unknown) IN
    IF ~Hashable(model) THEN [w EXCEPT !.raised = TRUE]
    ELSE LET n == Get(w.models_used, model, 0)
             w1 == [w EXCEPT !.models_used = SetItem(@, model, n + 1)] IN
    IF ~IsDict(rec.resp_body) THEN [w1 EXCEPT !.raised = TRUE]
    ELSE LET found == Get(rec.resp_body, "usage", EmptyObject)
             usage == IF Truthy(found) THEN found ELSE rec.resp_body IN
    IF ~IsDict(usage) THEN [w1 EXCEPT !.raised = TRUE]
    ELSE AddTokens(w1, usage)

\* write(record) appending to the file without looking at its state.
WriteRecord_Reopen(w, rec) ==
    LET u == UpdateStats([w EXCEPT !.file = Append(@, rec), !.count = @ + 1,
                                   !.raised = FALSE], rec) IN
    IF u.raised THEN u
    ELSE [u EXCEPT !.broadcast = Append(@, rec)]

\* trace.py 32-42: write(record). file.write raises ValueError on a closed
\* file, before anything is counted. Otherwise the line is written and
\* flushed, count is incremented and _update_stats runs; an exception
\* leaves write before the broadcast.
WriteRecord(w, rec) ==
    IF w.closed THEN [w EXCEPT !.raised = TRUE]
    ELSE LET u == UpdateStats([w EXCEPT !.file = Append(@, rec),
                                        !.count = @ + 1,
                                        !.raised = FALSE], rec) IN
         IF u.raised THEN u
         ELSE [u EXCEPT !.broadcast = Append(@, rec)]

\* trace.py 44-48: close()
CloseWriter(w) == [w EXCEPT !.closed = TRUE]

\* The dict get_summary returns holds the writer's own models_used dict,
\* not a copy of it.
OwnModelsUsed == [tag |-> "ref", attribute |-> "models_used"]

\* trace.py 71-80: get_summary()
GetSummary(w) ==
    [api_calls |-> w.count,
     input_tokens |-> w.total_input_tokens,
     output_tokens |-> w.total_output_tokens,
     cache_read_tokens |-> w.total_cache_read_tokens,
     cache_create_tokens |-> w.total_cache_create_tokens,
     models_used |-> OwnModelsUsed]

\* What a returned summary shows when it is read: the numbers it holds and
\* the dict its models_used refers to, as that dict is now.
Shown(summary, w) ==
    [summary EXCEPT !.models_used =
        IF summary.models_used = OwnModelsUsed THEN w.models_used
        ELSE summary.models_used]

\* cli.py 166-184: the shutdown sequence has not begun; no request handler
\* has started.
NoSession == [handlers |-> [c \in Calls |-> "idle"], shutdown |-> "running"]

\* live.py 23, 44-55: stop() has not been called: _shutdown_event is not
\* set. `cur` is the client whose write_eof stop() awaits, `idx` the list
\* iterator's index in its loop, `eof_sent` the clients whose write_eof
\* went through.
NotStopped == [event |-> FALSE, pc |-> "idle", idx |-> 0, cur |-> 0, eof_sent |-> {}]

\* No TraceWriter is exercised on its own.
InitWriterTest ==
    /\ test_writer = NewWriter
    /\ test_summaries = <<>>
    /\ test_session = NoSession

----------------------------------------------------------------------------
\* No streamed response is under way.
InitStream ==
    /\ upstream = [c \in Calls |-> <<>>]
    /\ chunks = [c \in Calls |-> <<>>]
    /\ sent = [c \in Calls |-> <<>>]
    /\ fed = [c \in Calls |-> <<>>]
    /\ reassembler = [c \in Calls |-> NewReassembler]
    /\ client_gone = [c \in Calls |-> FALSE]

\* No function is exercised on its own.
InitPure ==
    /\ test_bytes = <<>>
    /\ test_frames = <<>>
    /\ test_fed = 0
    /\ test_reassembler = NewReassembler
    /\ headers = <<>>
    /\ filtered = <<>>
    /\ InitWriterTest

\* cli.py 97-123: the session as async_main sets it up.
InitSession ==
    /\ pc = [c \in Calls |-> "idle"]
    /\ arrived = <<>>
    /\ turn_counter = 0
    /\ turn = [c \in Calls |-> 0]
    /\ req_body = [c \in Calls |-> Null]
    /\ up = [c \in Calls |-> NoUp]
    /\ record = [c \in Calls |-> NoRecord]
    /\ client = [c \in Calls |-> NoResponse]
    /\ errors = <<>>
    /\ InitStream
    /\ req_headers = [c \in Calls |-> <<>>]
    /\ fwd_headers = [c \in Calls |-> <<>>]
    /\ client_headers = [c \in Calls |-> <<>>]
    /\ writer_lock = 0
    /\ log = <<>>
    /\ count = 0
    /\ live_lock = 0
    /\ live_waiters = <<>>
    /\ records = <<>>
    /\ sse_clients = <<>>
    /\ bidx = [c \in Calls |-> 0]
    /\ bcur = [c \in Calls |-> 0]
    /\ disconnected = [c \in Calls |-> <<>>]
    /\ ost = [o \in Observers |-> "idle"]
    /\ broken = [o \in Observers |-> FALSE]
    /\ got = [o \in Observers |-> <<>>]
    /\ live_stop = NotStopped

Init == InitSession /\ InitPure

----------------------------------------------------------------------------
(* Helpers on Python lists.                                                *)

\* x in list
InList(x, s) == \E i \in 1..Len(s) : s[i] = x

\* list.remove(x): the list without the first occurrence of x.
RECURSIVE RemoveFirst(_, _)
RemoveFirst(x, s) ==
    IF s = <<>> THEN <<>>
    ELSE IF Head(s) = x THEN Tail(s)
    ELSE <<Head(s)>> \o RemoveFirst(x, Tail(s))

\* live.py 72-73: for client in disconnected: self._sse_clients.remove(client)
\* list.remove raises ValueError when the client is not in the list; the
\* removals made before that stay.
RECURSIVE RemoveDisconnected(_, _)
RemoveDisconnected(clients, disc) ==
    IF disc = <<>> THEN [list |-> clients, raised |-> FALSE]
    ELSE IF ~InList(Head(disc), clients) THEN [list |-> clients, raised |-> TRUE]
    ELSE RemoveDisconnected(RemoveFirst(Head(disc), clients), Tail(disc))

----------------------------------------------------------------------------
(* The session's configuration.                                            *)

\* cli.py 97-104: the session runs with the live viewer attached.
LiveViewer == TRUE

\* A task waiting for LiveViewerServer._lock.
CallTask(c) == <<"call", c>>
ObserverTask(o) == <<"observer", o>>

\* asyncio.Lock.acquire returns at once, without suspending, when the lock
\* is free and nobody waits for it.
LockFree == live_lock = 0 /\ live_waiters = <<>>

\* A waiter resumes when the lock is free and it is the first in line.
Woken(task) ==
    /\ live_lock = 0
    /\ live_waiters # <<>>
    /\ Head(live_waiters) = task

----------------------------------------------------------------------------
(* How proxy_handler ends.                                                 *)

\* An exception leaves proxy_handler: the web framework answers 500 when
\* no response has been started, and can only drop the connection when the
\* streamed response is already out.
HandlerRaises(c, how, resp) ==
    /\ pc' = [pc EXCEPT ![c] = how]
    /\ client' = [client EXCEPT ![c] =
                    IF resp = NoResponse
                    THEN [status |-> 500, body |-> InternalError]
                    ELSE resp]
    /\ UNCHANGED client_headers

\* proxy.py 177 / 227-231: the handler returns its response. The
\* non-streaming branch returns the upstream status and the raw bytes; the
\* streaming branch returns the response it has already written.
HandlerReturns(c, rec, bytes, resp) ==
    /\ pc' = [pc EXCEPT ![c] = "done"]
    /\ client' = [client EXCEPT ![c] =
                    IF rec.sse THEN resp
                    ELSE [status |-> rec.status, body |-> bytes]]
    /\ client_headers' = [client_headers EXCEPT ![c] =
                            IF rec.sse THEN client_headers[c]
                            ELSE ResponseHeaders(UpstreamHeaders(up[c].encoding))]

----------------------------------------------------------------------------
(* LiveViewerServer.broadcast                                              *)

\* A write to observer o raises at once: its connection is lost (the
\* transport is closing), its handler has ended (the response is finished)
\* or stop() has ended the response with write_eof.
WriteFails(o) ==
    broken[o] \/ ost[o] = "closed" \/ o \in live_stop.eof_sent

\* live.py 66-70: from index i on, the clients whose write raises at once
\* are collected in `disconnected` without a suspension; the result is the
\* index of the first client whose write goes through (or the list's end).
RECURSIVE NextWritable(_, _, _)
NextWritable(clients, i, disc) ==
    IF i < Len(clients) /\ WriteFails(clients[i + 1])
    THEN NextWritable(clients, i + 1, Append(disc, clients[i + 1]))
    ELSE [idx |-> i, disc |-> disc]

\* live.py 66-73: the loop `for client in self._sse_clients` asks the list
\* iterator for its next element: the element at index i of the list as it
\* is now, or the end of the loop when i is past the end. A write that goes
\* through hands the frame to the client's transport at once and may then
\* suspend until the transport has drained. At the loop's end the
\* disconnected clients are removed and broadcast returns (or list.remove
\* raises).
BroadcastLoop(c, rec, bytes, resp, i, disc) ==
    LET n == NextWritable(sse_clients, i, disc) IN
    IF n.idx < Len(sse_clients)
    THEN LET o == sse_clients[n.idx + 1] IN
         /\ got' = [got EXCEPT ![o] = Append(got[o], rec)]
         /\ bcur' = [bcur EXCEPT ![c] = o]
         /\ bidx' = [bidx EXCEPT ![c] = n.idx + 1]
         /\ disconnected' = [disconnected EXCEPT ![c] = n.disc]
         /\ pc' = [pc EXCEPT ![c] = "bcast_write"]
         /\ client' = [client EXCEPT ![c] = resp]
         /\ UNCHANGED client_headers
         /\ UNCHANGED sse_clients
    ELSE LET r == RemoveDisconnected(sse_clients, n.disc) IN
         /\ UNCHANGED got
         /\ sse_clients' = r.list
         /\ bcur' = [bcur EXCEPT ![c] = 0]
         /\ bidx' = [bidx EXCEPT ![c] = 0]
         /\ disconnected' = [disconnected EXCEPT ![c] = <<>>]
         /\ IF r.raised THEN HandlerRaises(c, "bcast_raised", resp)
                        ELSE HandlerReturns(c, rec, bytes, resp)

\* live.py 57-66: broadcast(record) is entered. With the lock free the
\* record is appended to the backlog and the loop starts; otherwise the
\* task queues on the lock.
Broadcast(c, rec, bytes, resp) ==
    IF LockFree
    THEN /\ records' = Append(records, rec)
         /\ BroadcastLoop(c, rec, bytes, resp, 0, <<>>)
         /\ UNCHANGED <<live_lock, live_waiters>>
    ELSE /\ live_waiters' = Append(live_waiters, CallTask(c))
         /\ pc' = [pc EXCEPT ![c] = "bcast_lock"]
         /\ client' = [client EXCEPT ![c] = resp]
         /\ UNCHANGED client_headers
         /\ UNCHANGED <<live_lock, records, sse_clients, bidx, bcur, disconnected>>
         /\ UNCHANGED got

\* The lock handed to the waiter that came last instead of the first in
\* line.
BroadcastEnter_LastInLine(c) ==
    /\ pc[c] = "bcast_lock"
    /\ live_lock = 0
    /\ live_waiters # <<>>
    /\ live_waiters[Len(live_waiters)] = CallTask(c)
    /\ live_waiters' = SubSeq(live_waiters, 1, Len(live_waiters) - 1)
    /\ records' = Append(records, record[c])
    /\ BroadcastLoop(c, record[c], up[c].bytes, client[c], 0, <<>>)
    /\ UNCHANGED <<arrived, turn_counter, turn, req_body, up, record>>
    /\ UNCHANGED <<errors, streamVars, pureVars, req_headers, fwd_headers>>
    /\ UNCHANGED <<writerVars, live_lock, ost, broken>>

\* live.py 59-66: the task waiting for the lock gets it, appends the record
\* to the backlog, releases the lock and starts the loop.
BroadcastEnter(c) ==
    /\ pc[c] = "bcast_lock"
    /\ Woken(CallTask(c))
    /\ live_waiters' = Tail(live_waiters)
    /\ records' = Append(records, record[c])
    /\ BroadcastLoop(c, record[c], up[c].bytes, client[c], 0, <<>>)
    /\ UNCHANGED <<arrived, turn_counter, turn, req_body, up, record>>
    /\ UNCHANGED <<errors, streamVars, pureVars, req_headers, fwd_headers>>
    /\ UNCHANGED <<writerVars, live_lock, ost, broken>>

\* live.py 67-70: the awaited client.write(...) returns, or raises when the
\* connection was lost while the write waited (the wait ends with or
\* without the error); the loop goes on.
BroadcastWrite(c) ==
    LET o == bcur[c] IN
    /\ pc[c] = "bcast_write"
    /\ \E fails \in (IF WriteFails(o) THEN BOOLEAN ELSE {FALSE}) :
          BroadcastLoop(c, record[c], up[c].bytes, client[c], bidx[c],
                        IF fails THEN Append(disconnected[c], o)
                                 ELSE disconnected[c])
    /\ UNCHANGED <<arrived, turn_counter, turn, req_body, up, record>>
    /\ UNCHANGED <<errors, streamVars, pureVars, req_headers, fwd_headers>>
    /\ UNCHANGED <<writerVars, live_lock, live_waiters, records, ost, broken>>

----------------------------------------------------------------------------
(* TraceWriter.write                                                       *)

\* write(record) with the line left in the file buffer: broadcast goes ahead
\* of the flushed append.
Write_Unflushed(c, rec, bytes, resp) ==
    /\ writer_lock = 0
    /\ UNCHANGED log
    /\ count' = count + 1
    /\ writer_lock' = 0
    /\ IF UpdateStatsRaises(rec)
       THEN /\ HandlerRaises(c, "write_raised", resp)
            /\ UNCHANGED <<liveVars, got>>
       ELSE Broadcast(c, rec, bytes, resp)

\* write(record) with the count left as it was: an aggregate update is lost.
Write_NoCount(c, rec, bytes, resp) ==
    /\ writer_lock = 0
    /\ log' = Append(log, rec)
    /\ UNCHANGED count
    /\ writer_lock' = 0
    /\ IF UpdateStatsRaises(rec)
       THEN /\ HandlerRaises(c, "write_raised", resp)
            /\ UNCHANGED <<liveVars, got>>
       ELSE Broadcast(c, rec, bytes, resp)

\* write(record) putting its line ahead of the lines already in the file.
Write_Prepend(c, rec, bytes, resp) ==
    /\ writer_lock = 0
    /\ log' = <<rec>> \o log
    /\ count' = count + 1
    /\ writer_lock' = 0
    /\ IF UpdateStatsRaises(rec)
       THEN /\ HandlerRaises(c, "write_raised", resp)
            /\ UNCHANGED <<liveVars, got>>
       ELSE Broadcast(c, rec, bytes, resp)

\* trace.py 32-42: write(record). The lock is free (its holder never
\* suspends), the line is written and flushed, count is incremented and
\* _update_stats runs; an exception of it leaves write through the lock's
\* context manager. With the lock released, write goes on to broadcast.
Write(c, rec, bytes, resp) ==
    /\ writer_lock = 0
    /\ log' = Append(log, rec)
    /\ count' = count + 1
    /\ writer_lock' = 0
    /\ IF UpdateStatsRaises(rec)
       THEN /\ HandlerRaises(c, "write_raised", resp)
            /\ UNCHANGED <<liveVars, got>>
       ELSE IF LiveViewer
            THEN Broadcast(c, rec, bytes, resp)
            ELSE /\ HandlerReturns(c, rec, bytes, resp)
                 /\ UNCHANGED <<liveVars, got>>

----------------------------------------------------------------------------
(* proxy_handler                                                           *)

\* proxy.py 58-66: handling begins, with the request's headers h parsed,
\* and suspends in `await request.read()`.
Arrive(c, h) ==
    /\ pc[c] = "idle"
    /\ pc' = [pc EXCEPT ![c] = "read_body"]
    /\ arrived' = Append(arrived, c)
    /\ req_headers' = [req_headers EXCEPT ![c] = h]
    /\ UNCHANGED <<turn_counter, turn, req_body, up, record, client>>
    /\ UNCHANGED <<errors, streamVars, pureVars, fwd_headers, client_headers>>
    /\ UNCHANGED <<writerVars, liveVars, obsVars>>

\* The turn computed from the counter, the counter not stored back.
BodyRead_NoStore(c, b) ==
    /\ pc[c] = "read_body"
    /\ req_body' = [req_body EXCEPT ![c] = ParseRequest(b)]
    /\ fwd_headers' = [fwd_headers EXCEPT ![c] =
                         ForwardHeaders(req_headers[c],
                                        IsStreaming(ParseRequest(b)))]
    /\ turn' = [turn EXCEPT ![c] = turn_counter + 1]
    /\ pc' = [pc EXCEPT ![c] = "request"]
    /\ UNCHANGED <<turn_counter, arrived, up, record, client>>
    /\ UNCHANGED <<errors, streamVars, pureVars, req_headers, client_headers>>
    /\ UNCHANGED <<writerVars, liveVars, obsVars>>

\* The turn taken from the request's place in the order of arrival.
BodyRead_ArrivalTurn(c, b) ==
    /\ pc[c] = "read_body"
    /\ req_body' = [req_body EXCEPT ![c] = ParseRequest(b)]
    /\ fwd_headers' = [fwd_headers EXCEPT ![c] =
                         ForwardHeaders(req_headers[c],
                                        IsStreaming(ParseRequest(b)))]
    /\ turn_counter' = turn_counter + 1
    /\ turn' = [turn EXCEPT ![c] =
                  CHOOSE i \in 1..Len(arrived) : arrived[i] = c]
    /\ pc' = [pc EXCEPT ![c] = "request"]
    /\ UNCHANGED <<arrived, up, record, client>>
    /\ UNCHANGED <<errors, streamVars, pureVars, req_headers, client_headers>>
    /\ UNCHANGED <<writerVars, liveVars, obsVars>>

\* proxy.py 66-96: the body read completes; the headers to forward are
\* computed, the body is parsed, the turn is assigned, and the handler
\* suspends in `await session.request(...)`. A body whose parse raises
\* RecursionError leaves the handler at proxy.py 76, ahead of the turn
\* counter's increment at 84-85: the framework answers 500.
BodyRead(c, b) ==
    /\ pc[c] = "read_body"
    /\ IF RequestRecurses(b)
       THEN /\ HandlerRaises(c, "parse_raised", NoResponse)
            /\ UNCHANGED <<req_body, fwd_headers, turn_counter, turn>>
       ELSE /\ req_body' = [req_body EXCEPT ![c] = ParseRequest(b)]
            /\ fwd_headers' = [fwd_headers EXCEPT ![c] =
                                 ForwardHeaders(req_headers[c],
                                                IsStreaming(ParseRequest(b)))]
            /\ turn_counter' = turn_counter + 1
            /\ turn' = [turn EXCEPT ![c] = turn_counter + 1]
            /\ pc' = [pc EXCEPT ![c] = "request"]
            /\ UNCHANGED <<client, client_headers>>
    /\ UNCHANGED <<arrived, up, record>>
    /\ UNCHANGED <<errors, streamVars, pureVars, req_headers>>
    /\ UNCHANGED <<writerVars, liveVars, obsVars>>

\* The unreachable upstream answered with a trace line written and counted.
UpstreamFail_Traced(c) ==
    /\ pc[c] = "request"
    /\ pc' = [pc EXCEPT ![c] = "done"]
    /\ client' = [client EXCEPT ![c] = [status |-> 502, body |-> ErrorText]]
    /\ errors' = Append(errors, c)
    /\ log' = Append(log, BuildRecord(c, turn[c], req_body[c], 502, Null,
                                      FALSE, <<>>))
    /\ count' = count + 1
    /\ UNCHANGED <<arrived, turn_counter, turn, req_body, up, record>>
    /\ UNCHANGED <<streamVars, pureVars, hdrVars>>
    /\ UNCHANGED <<writer_lock, liveVars, obsVars>>

\* proxy.py 103-108: the upstream cannot be reached: the error is logged
\* and the handler returns a 502 carrying the error text.
UpstreamFail(c) ==
    /\ pc[c] = "request"
    /\ pc' = [pc EXCEPT ![c] = "done"]
    /\ client' = [client EXCEPT ![c] = [status |-> 502, body |-> ErrorText]]
    /\ errors' = Append(errors, c)
    /\ UNCHANGED <<arrived, turn_counter, turn, req_body, up, record>>
    /\ UNCHANGED <<streamVars, pureVars, hdrVars>>
    /\ UNCHANGED <<writerVars, liveVars, obsVars>>

\* proxy.py 96-116, 130-134, 191: the upstream's status and headers arrive;
\* dispatch to the streaming branch (which suspends in resp.prepare and the
\* chunk loop) or to the non-streaming branch (which suspends in
\* `await upstream_resp.read()`).
\* In the streaming branch the upstream's body is the stream s, which
\* arrives chunk by chunk.
UpstreamResponds(c, status, encoding, s) ==
    /\ pc[c] = "request"
    /\ up' = [up EXCEPT ![c] = [status |-> status, encoding |-> encoding,
                                bytes |-> NoBytes]]
    /\ IF IsStreaming(req_body[c]) /\ status = 200
       THEN /\ pc' = [pc EXCEPT ![c] = "stream"]
            /\ upstream' = [upstream EXCEPT ![c] = s]
            /\ client_headers' = [client_headers EXCEPT ![c] =
                                    ResponseHeaders(UpstreamHeaders(encoding))]
       ELSE /\ pc' = [pc EXCEPT ![c] = "read_resp"]
            /\ UNCHANGED <<upstream, client_headers>>
    /\ UNCHANGED <<arrived, turn_counter, turn, req_body, record, client>>
    /\ UNCHANGED <<errors, chunks, sent, fed, reassembler, client_gone, pureVars>>
    /\ UNCHANGED <<req_headers, fwd_headers>>
    /\ UNCHANGED <<writerVars, liveVars, obsVars>>

\* proxy.py 191-231: the upstream body is read, decompressed for tracing
\* and parsed, the record is built and written, and the handler returns
\* the upstream's status and raw bytes.
RespRead(c, bytes) ==
    LET rec == BuildRecord(c, turn[c], req_body[c], up[c].status,
                           ParseResponse(Decompress(up[c].encoding, bytes)),
                           FALSE, <<>>) IN
    /\ pc[c] = "read_resp"
    /\ up' = [up EXCEPT ![c].bytes = bytes]
    /\ record' = [record EXCEPT ![c] = rec]
    /\ Write(c, rec, bytes, client[c])
    /\ UNCHANGED <<arrived, turn_counter, turn, req_body>>
    /\ UNCHANGED <<errors, streamVars, pureVars, req_headers, fwd_headers>>
    /\ UNCHANGED <<ost, broken>>

\* What the client has of the streamed response: the upstream's status
\* and the bytes handed to its transport.
StreamedResponse(c) ==
    [status |-> up[c].status,
     body |-> [wire |-> "plain", kind |-> "sse", data |-> Flatten(sent[c])]]

\* proxy.py 138-142: the upstream's next chunk arrives and
\* `await resp.write(chunk)` is called. The write hands the chunk to the
\* client's transport and may suspend until it has drained; on a lost
\* connection it raises ConnectionResetError at once, the loop is left and
\* the handler goes on to `await resp.write_eof()`.
StreamChunk(c) ==
    /\ pc[c] = "stream"
    /\ Len(chunks[c]) < Len(upstream[c])
    /\ chunks' = [chunks EXCEPT ![c] = Append(chunks[c], upstream[c][Len(chunks[c]) + 1])]
    /\ IF client_gone[c]
       THEN /\ pc' = [pc EXCEPT ![c] = "eof"]
            /\ UNCHANGED sent
       ELSE /\ pc' = [pc EXCEPT ![c] = "client_write"]
            /\ sent' = [sent EXCEPT ![c] = Append(sent[c], upstream[c][Len(chunks[c]) + 1])]
    /\ UNCHANGED <<arrived, turn_counter, turn, req_body, up, record, client>>
    /\ UNCHANGED <<errors, upstream, fed, reassembler, client_gone, pureVars, hdrVars>>
    /\ UNCHANGED <<writerVars, liveVars, obsVars>>

\* The chunk fed to the reassembler although its write to the client raised.
StreamWritten_FeedAnyway(c) ==
    /\ pc[c] = "client_write"
    /\ \E fails \in (IF client_gone[c] THEN BOOLEAN ELSE {FALSE}) :
          /\ pc' = [pc EXCEPT ![c] = IF fails THEN "eof" ELSE "stream"]
          /\ fed' = [fed EXCEPT ![c] = Append(fed[c], sent[c][Len(sent[c])])]
          /\ reassembler' = [reassembler EXCEPT ![c] =
                                FeedBytes(reassembler[c], sent[c][Len(sent[c])])]
    /\ UNCHANGED <<arrived, turn_counter, turn, req_body, up, record, client>>
    /\ UNCHANGED <<errors, upstream, chunks, sent, client_gone, pureVars, hdrVars>>
    /\ UNCHANGED <<writerVars, liveVars, obsVars>>

\* proxy.py 139-142: the awaited resp.write(chunk) returns and the chunk is
\* fed to the reassembler, or it raises ConnectionResetError because the
\* client went away while the write waited (the wait ends with or without
\* the error) and the loop is left.
StreamWritten(c) ==
    /\ pc[c] = "client_write"
    /\ \E fails \in (IF client_gone[c] THEN BOOLEAN ELSE {FALSE}) :
          IF fails
          THEN /\ pc' = [pc EXCEPT ![c] = "eof"]
               /\ UNCHANGED <<fed, reassembler>>
          ELSE /\ pc' = [pc EXCEPT ![c] = "stream"]
               /\ fed' = [fed EXCEPT ![c] = Append(fed[c], sent[c][Len(sent[c])])]
               /\ reassembler' = [reassembler EXCEPT ![c] =
                                     FeedBytes(reassembler[c], sent[c][Len(sent[c])])]
    /\ UNCHANGED <<arrived, turn_counter, turn, req_body, up, record, client>>
    /\ UNCHANGED <<errors, upstream, chunks, sent, client_gone, pureVars, hdrVars>>
    /\ UNCHANGED <<writerVars, liveVars, obsVars>>

\* proxy.py 138: the upstream's stream ends; the loop is left.
UpstreamEnds(c) ==
    /\ pc[c] = "stream"
    /\ Len(chunks[c]) = Len(upstream[c])
    /\ pc' = [pc EXCEPT ![c] = "eof"]
    /\ UNCHANGED <<arrived, turn_counter, turn, req_body, up, record, client>>
    /\ UNCHANGED <<errors, streamVars, pureVars, hdrVars>>
    /\ UNCHANGED <<writerVars, liveVars, obsVars>>

\* What reading the upstream's stream raises when the connection drops, the
\* payload is cut short or the read times out (proxy.py 101: ClientTimeout):
\* the HTTP client's ClientPayloadError, asyncio's TimeoutError, or an
\* error that is a ConnectionError.
UpstreamErrors == {"ConnectionError", "ClientPayloadError", "TimeoutError"}

\* The handler writing a record where it catches the upstream's failure,
\* ahead of the one it writes after write_eof.
UpstreamDrops_WriteEarly(c, exc) ==
    /\ pc[c] = "stream"
    /\ Len(chunks[c]) < Len(upstream[c])
    /\ pc' = [pc EXCEPT ![c] = "eof"]
    /\ log' = Append(log, BuildRecord(c, turn[c], req_body[c], up[c].status,
                                      Reconstruct(reassembler[c]), TRUE,
                                      reassembler[c].events))
    /\ count' = count + 1
    /\ UNCHANGED <<arrived, turn_counter, turn, req_body, up, record, client>>
    /\ UNCHANGED <<errors, streamVars, pureVars, hdrVars>>
    /\ UNCHANGED <<writer_lock, liveVars, obsVars>>

\* proxy.py 138-142: the upstream's stream fails before its end. The loop's
\* `except (ConnectionError, asyncio.CancelledError)` catches a
\* ConnectionError and the handler goes on to write_eof; any other
\* exception leaves _handle_streaming and proxy_handler.
UpstreamDrops(c, exc) ==
    /\ pc[c] = "stream"
    /\ Len(chunks[c]) < Len(upstream[c])
    /\ IF exc = "ConnectionError"
       THEN /\ pc' = [pc EXCEPT ![c] = "eof"]
            /\ UNCHANGED <<client, client_headers>>
       ELSE HandlerRaises(c, "stream_raised", StreamedResponse(c))
    /\ UNCHANGED <<arrived, turn_counter, turn, req_body, up, record>>
    /\ UNCHANGED <<errors, streamVars, pureVars, req_headers, fwd_headers>>
    /\ UNCHANGED <<writerVars, liveVars, obsVars>>

\* The original client disconnects while the response is streamed to it.
ClientGone(c) ==
    /\ pc[c] \in {"stream", "client_write"}
    /\ ~client_gone[c]
    /\ client_gone' = [client_gone EXCEPT ![c] = TRUE]
    /\ UNCHANGED <<pc, arrived, turn_counter, turn, req_body, up, record, client>>
    /\ UNCHANGED <<errors, upstream, chunks, sent, fed, reassembler, pureVars, hdrVars>>
    /\ UNCHANGED <<writerVars, liveVars, obsVars>>

\* The handler giving up on the record of a call whose client went away.
StreamEof_SkipOnDisconnect(c) ==
    LET rec == BuildRecord(c, turn[c], req_body[c], up[c].status,
                           Reconstruct(reassembler[c]), TRUE,
                           reassembler[c].events) IN
    /\ pc[c] = "eof"
    /\ IF client_gone[c]
       THEN /\ pc' = [pc EXCEPT ![c] = "done"]
            /\ client' = [client EXCEPT ![c] = StreamedResponse(c)]
            /\ UNCHANGED <<record, client_headers, writerVars, liveVars, got>>
       ELSE /\ record' = [record EXCEPT ![c] = rec]
            /\ Write(c, rec, NoBytes, StreamedResponse(c))
    /\ UNCHANGED <<arrived, turn_counter, turn, req_body, up>>
    /\ UNCHANGED <<errors, streamVars, pureVars, req_headers, fwd_headers>>
    /\ UNCHANGED <<ost, broken>>

\* The handler ending the pending frame with a blank line of its own before
\* it reads the reassembler.
StreamEof_Flush(c) ==
    LET flushed == FeedBytes(reassembler[c], <<LF, LF>>)
        rec == BuildRecord(c, turn[c], req_body[c], up[c].status,
                           Reconstruct(flushed), TRUE, flushed.events) IN
    /\ pc[c] = "eof"
    /\ record' = [record EXCEPT ![c] = rec]
    /\ Write(c, rec, NoBytes, StreamedResponse(c))
    /\ UNCHANGED <<arrived, turn_counter, turn, req_body, up>>
    /\ UNCHANGED <<errors, streamVars, pureVars, req_headers, fwd_headers>>
    /\ UNCHANGED <<ost, broken>>

\* proxy.py 144-177: `await resp.write_eof()` returns or raises (the
\* exception is swallowed); the record is built from the reassembler's
\* snapshot and events and written, and the handler returns the response
\* it streamed.
StreamEof(c) ==
    LET rec == BuildRecord(c, turn[c], req_body[c], up[c].status,
                           Reconstruct(reassembler[c]), TRUE,
                           reassembler[c].events) IN
    /\ pc[c] = "eof"
    /\ record' = [record EXCEPT ![c] = rec]
    /\ Write(c, rec, NoBytes, StreamedResponse(c))
    /\ UNCHANGED <<arrived, turn_counter, turn, req_body, up>>
    /\ UNCHANGED <<errors, streamVars, pureVars, req_headers, fwd_headers>>
    /\ UNCHANGED <<ost, broken>>

----------------------------------------------------------------------------
(* LiveViewerServer._handle_sse: one observer of /events                   *)

\* live.py 120-125: the lock is released, the observer is registered and
\* waits in the keep-alive loop. With the shutdown event set the loop is
\* not entered: the finally block removes the observer again and the
\* handler returns.
Register(o) ==
    /\ live_lock' = 0
    /\ IF live_stop.event
       THEN /\ UNCHANGED sse_clients
            /\ ost' = [ost EXCEPT ![o] = "closed"]
       ELSE /\ sse_clients' = Append(sse_clients, o)
            /\ ost' = [ost EXCEPT ![o] = "live"]

\* live.py 115-120: with the lock taken the replay of the backlog starts
\* and suspends in its first `await resp.write(...)`; with an empty backlog
\* the observer is registered at once.
ReplayStart(o) ==
    IF records = <<>>
    THEN Register(o)
    ELSE /\ live_lock' = o
         /\ ost' = [ost EXCEPT ![o] = "replaying"]
         /\ UNCHANGED sse_clients

\* live.py 104-115: `await resp.prepare(request)` completes and the lock is
\* asked for: taken at once when free, else the task queues on it. The
\* server takes connections until stop() has cleaned up its runner.
Connect(o) ==
    /\ ost[o] = "idle"
    /\ live_stop.pc # "done"
    /\ IF LockFree
       THEN ReplayStart(o) /\ UNCHANGED live_waiters
       ELSE /\ live_waiters' = Append(live_waiters, ObserverTask(o))
            /\ ost' = [ost EXCEPT ![o] = "lock_wait"]
            /\ UNCHANGED <<live_lock, sse_clients>>
    /\ UNCHANGED <<proxyVars, writerVars, records, bidx, bcur, disconnected>>
    /\ UNCHANGED <<broken, got>>

\* live.py 115: the observer waiting for the lock gets it.
ReplayEnter(o) ==
    /\ ost[o] = "lock_wait"
    /\ Woken(ObserverTask(o))
    /\ live_waiters' = Tail(live_waiters)
    /\ ReplayStart(o)
    /\ UNCHANGED <<proxyVars, writerVars, records, bidx, bcur, disconnected>>
    /\ UNCHANGED <<broken, got>>

\* live.py 116-120: one awaited resp.write of the replay completes. When it
\* raises, the exception leaves _handle_sse (releasing the lock) before the
\* observer was registered.
ReplayWrite(o) ==
    /\ ost[o] = "replaying"
    /\ IF broken[o]
       THEN /\ live_lock' = 0
            /\ ost' = [ost EXCEPT ![o] = "closed"]
            /\ UNCHANGED <<sse_clients, got>>
       ELSE /\ got' = [got EXCEPT ![o] = Append(got[o], records[Len(got[o]) + 1])]
            /\ IF Len(got[o]) + 1 = Len(records)
               THEN Register(o)
               ELSE UNCHANGED <<live_lock, sse_clients, ost>>
    /\ UNCHANGED <<proxyVars, writerVars, live_waiters, records, bidx, bcur, disconnected>>
    /\ UNCHANGED broken

\* The observer's connection is lost (the browser tab is closed).
ConnectionLost(o) ==
    /\ ost[o] \in {"lock_wait", "replaying", "live", "keepalive"}
    /\ ~broken[o]
    /\ broken' = [broken EXCEPT ![o] = TRUE]
    /\ UNCHANGED <<proxyVars, writerVars, liveVars, ost, got>>

\* live.py 122-140: the keep-alive write raises (or the handler is
\* cancelled) on the lost connection; the finally block removes the
\* observer from the list when it is still there.
Leave(o) ==
    /\ ost[o] = "live"
    /\ broken[o]
    /\ sse_clients' = RemoveFirst(o, sse_clients)
    /\ ost' = [ost EXCEPT ![o] = "closed"]
    /\ UNCHANGED <<proxyVars, writerVars>>
    /\ UNCHANGED <<live_lock, live_waiters, records, bidx, bcur, disconnected>>
    /\ UNCHANGED <<broken, got>>

\* The handler returning with the observer left in the list.
Close_KeepRegistered(o) ==
    /\ UNCHANGED sse_clients
    /\ ost' = [ost EXCEPT ![o] = "closed"]

\* live.py 122-140: the handler of a registered observer leaves its loop:
\* the finally block removes the observer from the list when it is still
\* there, and the handler returns.
Close(o) ==
    /\ sse_clients' = RemoveFirst(o, sse_clients)
    /\ ost' = [ost EXCEPT ![o] = "closed"]

\* live.py 124-133: the 30 s wait ends without the shutdown event and the
\* keep-alive comment is written; the handler waits until the transport
\* has drained. (On a lost connection the write raises: Leave.)
KeepAlive(o) ==
    /\ ost[o] = "live"
    /\ ~live_stop.event
    /\ ~WriteFails(o)
    /\ ost' = [ost EXCEPT ![o] = "keepalive"]
    /\ UNCHANGED <<proxyVars, writerVars, liveVars, broken, got>>

\* live.py 123-133: the keep-alive write returns, or raises on a connection
\* lost meanwhile; the loop goes on unless the shutdown event is set.
KeepAliveDone(o) ==
    /\ ost[o] = "keepalive"
    /\ \E raises \in (IF WriteFails(o) THEN BOOLEAN ELSE {FALSE}) :
          IF raises \/ live_stop.event
          THEN Close(o)
          ELSE /\ ost' = [ost EXCEPT ![o] = "live"]
               /\ UNCHANGED sse_clients
    /\ UNCHANGED <<proxyVars, writerVars>>
    /\ UNCHANGED <<live_lock, live_waiters, records, bidx, bcur, disconnected>>
    /\ UNCHANGED <<broken, got>>

\* live.py 124-129: the shutdown event ends the handler's wait.
Wake(o) ==
    /\ ost[o] = "live"
    /\ live_stop.event
    /\ Close(o)
    /\ UNCHANGED <<proxyVars, writerVars>>
    /\ UNCHANGED <<live_lock, live_waiters, records, bidx, bcur, disconnected>>
    /\ UNCHANGED <<broken, got>>

----------------------------------------------------------------------------
(* LiveViewerServer.stop                                                   *)

\* live.py 47-51: from index i on, the clients whose write_eof raises or
\* returns at once (the connection is lost, or the response is finished)
\* are passed without a suspension; the result is the index of the first
\* client whose write_eof goes through (or the list's end).
RECURSIVE NextOpen(_, _)
NextOpen(clients, i) ==
    IF i < Len(clients) /\ WriteFails(clients[i + 1])
    THEN NextOpen(clients, i + 1)
    ELSE i

\* live.py 47-55: the loop `for client in self._sse_clients` of stop() asks
\* the list iterator for its next element. write_eof hands the end of the
\* response to the client's transport and waits until the transport has
\* drained. At the loop's end the list is cleared and the runner's
\* cleanup is awaited.
StopLoop(i, eof_sent) ==
    LET n == NextOpen(sse_clients, i) IN
    IF n < Len(sse_clients)
    THEN /\ live_stop' = [event |-> TRUE, pc |-> "eof", idx |-> n + 1,
                          cur |-> sse_clients[n + 1], eof_sent |-> eof_sent]
         /\ UNCHANGED sse_clients
    ELSE /\ live_stop' = [event |-> TRUE, pc |-> "cleanup", idx |-> 0,
                          cur |-> 0, eof_sent |-> eof_sent]
         /\ sse_clients' = <<>>

\* live.py 44-47: stop() is called: the shutdown event is set and the loop
\* over the clients starts.
Stop ==
    /\ live_stop.pc = "idle"
    /\ StopLoop(0, {})
    /\ UNCHANGED <<callVars, writerVars, obsVars>>
    /\ UNCHANGED <<live_lock, live_waiters, records, bidx, bcur, disconnected>>
    /\ UNCHANGED <<test_bytes, test_frames, test_fed, test_reassembler, headers,
                   filtered, writerTestVars>>

\* live.py 48-51: the awaited client.write_eof() returns: the response is
\* finished; or it raises on a connection lost meanwhile, which is passed
\* over. The loop goes on.
StopEof ==
    /\ live_stop.pc = "eof"
    /\ \E raises \in (IF WriteFails(live_stop.cur) THEN BOOLEAN ELSE {FALSE}) :
          StopLoop(live_stop.idx,
                   IF raises THEN live_stop.eof_sent
                   ELSE live_stop.eof_sent \cup {live_stop.cur})
    /\ UNCHANGED <<callVars, writerVars, obsVars>>
    /\ UNCHANGED <<live_lock, live_waiters, records, bidx, bcur, disconnected>>
    /\ UNCHANGED <<test_bytes, test_frames, test_fed, test_reassembler, headers,
                   filtered, writerTestVars>>

\* A task that is no observer's.
IsCallTask(task) == task[1] = "call"

\* live.py 54-55: `await self._runner.cleanup()` returns: the server takes
\* no more connections, and the handlers still running have been
\* cancelled. The CancelledError leaves a handler that waits for the lock
\* or replays (releasing the lock), and ends the loop of a registered one,
\* whose finally block removes it from the list.
StopCleanup ==
    /\ live_stop.pc = "cleanup"
    /\ live_stop' = [live_stop EXCEPT !.pc = "done"]
    /\ ost' = [o \in Observers |-> IF ost[o] = "idle" THEN "idle" ELSE "closed"]
    /\ sse_clients' = <<>>
    /\ live_lock' = 0
    /\ live_waiters' = SelectSeq(live_waiters, IsCallTask)
    /\ UNCHANGED <<callVars, writerVars, broken, got>>
    /\ UNCHANGED <<records, bidx, bcur, disconnected>>
    /\ UNCHANGED <<test_bytes, test_frames, test_fed, test_reassembler, headers,
                   filtered, writerTestVars>>

----------------------------------------------------------------------------
(* The specifications.                                                     *)

\* The inputs of the concurrent session: requests with and without a body,
\* streamed or not, answered with a JSON object.
ReqBytes == {"empty", "object", "object_stream"}
RespBytes == {[wire |-> "plain", kind |-> "object"]}

\* A message_start frame and a content_block_start frame, as the upstream
\* sends them.
StartFrame ==
    EventField \o <<SP>> \o MessageStart \o <<LF>> \o
    DataField \o <<SP, "{", "}", LF, LF>>
BlockFrame ==
    EventField \o <<SP>> \o ContentBlockStart \o <<LF>> \o
    DataField \o <<SP, "{", "}", LF, LF>>

\* A frame whose terminating blank line never comes.
OpenFrame == EventField \o <<SP>> \o Ping \o <<LF>> \o DataField \o <<SP, "1", LF>>

\* The frames of a tool_use block: its start, a delta with the first piece
\* of its input, and its stop.
ToolStartFrame ==
    EventField \o <<SP>> \o ContentBlockStart \o <<LF>> \o
    DataField \o <<SP>> \o ToolStartJson \o <<LF, LF>>
InputDeltaFrame ==
    EventField \o <<SP>> \o ContentBlockDelta \o <<LF>> \o
    DataField \o <<SP>> \o InputDeltaJson \o <<LF, LF>>
BlockStopFrame ==
    EventField \o <<SP>> \o ContentBlockStop \o <<LF>> \o
    DataField \o <<SP>> \o BlockStopJson \o <<LF, LF>>

\* The stream of the concurrent session: one chunk holding one frame.
Streams == {<<StartFrame>>}

\* The streams of a single call: frames arriving whole, a frame cut in two
\* by the chunking, a stream without message_start, a stream ending in an
\* unterminated frame, a stream with a tool_use block whose stop comes in
\* the last chunk, and an empty stream.
StreamsAll ==
    {<<StartFrame, BlockFrame>>,
     <<StartFrame, ToolStartFrame \o InputDeltaFrame, BlockStopFrame>>,
     <<SubSeq(StartFrame, 1, 9), SubSeq(StartFrame, 10, Len(StartFrame)) \o BlockFrame>>,
     <<BlockFrame>>,
     <<StartFrame, OpenFrame>>,
     <<>>}
Statuses == {200}
Encodings == {""}

\* An API key longer than the redaction threshold, and other values.
ApiKey == <<"s", "k", "-", "a", "n", "t", "-", "a", "p", "i", "0", "3", "-", "x">>
Bearer == <<"t", "o", "k", "e", "n">>
Local == <<"1", "2", "7", ".", "0", ".", "0", ".", "1">>

\* request.headers of the concurrent session, as the HTTP parser delivers
\* them.
ReqHeaders ==
    {<<[name |-> "Host", value |-> Local],
       [name |-> "x-api-key", value |-> ApiKey],
       [name |-> "content-type", value |-> Json]>>}

\* request.headers of a single call: the names in the letter case the
\* parser delivers (a parser that does not normalise names delivers the
\* client's spelling), credentials long and short, a hop-by-hop header, an
\* Accept-Encoding of the client's own.
ReqHeadersAll ==
    ReqHeaders \cup
    {<<[name |-> "host", value |-> Local],
       [name |-> "Authorization", value |-> Bearer]>>,
     <<[name |-> "Host", value |-> Local],
       [name |-> "Connection", value |-> Chunked],
       [name |-> "X-Api-Key", value |-> ApiKey]>>,
     <<[name |-> "Host", value |-> Local],
       [name |-> "AUTHORIZATION", value |-> ApiKey],
       [name |-> "Accept-Encoding", value |-> Gzip]>>}

Next ==
    \/ \E c \in Calls, h \in ReqHeaders : Arrive(c, h)
    \/ \E c \in Calls, b \in ReqBytes : BodyRead(c, b)
    \/ \E c \in Calls : UpstreamFail(c)
    \/ \E c \in Calls, s \in Statuses, e \in Encodings, st \in Streams :
            UpstreamResponds(c, s, e, st)
    \/ \E c \in Calls, bytes \in RespBytes : RespRead(c, bytes)
    \/ \E c \in Calls : StreamChunk(c)
    \/ \E c \in Calls : StreamWritten(c)
    \/ \E c \in Calls : UpstreamEnds(c)
    \/ \E c \in Calls, exc \in UpstreamErrors : UpstreamDrops(c, exc)
    \/ \E c \in Calls : ClientGone(c)
    \/ \E c \in Calls : StreamEof(c)
    \/ \E c \in Calls : BroadcastEnter(c)
    \/ \E c \in Calls : BroadcastWrite(c)
    \/ \E o \in Observers : Connect(o)
    \/ \E o \in Observers : ReplayEnter(o)
    \/ \E o \in Observers : ReplayWrite(o)
    \/ \E o \in Observers : ConnectionLost(o)
    \/ \E o \in Observers : Leave(o)

Spec == Init /\ [][Next]_vars

\* The proxy alone: concurrent calls, the live viewer attached and nobody
\* watching it.
NextProxy ==
    \/ \E c \in Calls, h \in ReqHeaders : Arrive(c, h)
    \/ \E c \in Calls, b \in ReqBytes : BodyRead(c, b)
    \/ \E c \in Calls : UpstreamFail(c)
    \/ \E c \in Calls, s \in Statuses, e \in Encodings, st \in Streams :
            UpstreamResponds(c, s, e, st)
    \/ \E c \in Calls, bytes \in RespBytes : RespRead(c, bytes)
    \/ \E c \in Calls : StreamChunk(c)
    \/ \E c \in Calls : StreamWritten(c)
    \/ \E c \in Calls : UpstreamEnds(c)
    \/ \E c \in Calls : StreamEof(c)

SpecProxy == Init /\ [][NextProxy]_vars

\* The proxy alone, with streams that break: the upstream's stream fails
\* or the original client goes away while a response is streamed.
NextCalls ==
    \/ \E c \in Calls, h \in ReqHeaders : Arrive(c, h)
    \/ \E c \in Calls, b \in ReqBytes : BodyRead(c, b)
    \/ \E c \in Calls : UpstreamFail(c)
    \/ \E c \in Calls, s \in Statuses, e \in Encodings, st \in Streams :
            UpstreamResponds(c, s, e, st)
    \/ \E c \in Calls, bytes \in RespBytes : RespRead(c, bytes)
    \/ \E c \in Calls : StreamChunk(c)
    \/ \E c \in Calls : StreamWritten(c)
    \/ \E c \in Calls : UpstreamEnds(c)
    \/ \E c \in Calls, exc \in UpstreamErrors : UpstreamDrops(c, exc)
    \/ \E c \in Calls : ClientGone(c)
    \/ \E c \in Calls : StreamEof(c)

SpecCalls == Init /\ [][NextCalls]_vars

\* One proxied call, over every shape of request and of upstream answer.
FwdCalls == {1}

NextFwd ==
    \/ \E c \in FwdCalls, h \in ReqHeadersAll : Arrive(c, h)
    \/ \E c \in FwdCalls, b \in ReqBytesAll : BodyRead(c, b)
    \/ \E c \in FwdCalls : UpstreamFail(c)
    \/ \E c \in FwdCalls, s \in StatusesAll, e \in EncodingsAll :
            \E st \in StreamsAll : UpstreamResponds(c, s, e, st)
    \/ \E c \in FwdCalls, bytes \in RespBytesAll : RespRead(c, bytes)
    \/ \E c \in FwdCalls : StreamChunk(c)
    \/ \E c \in FwdCalls : StreamWritten(c)
    \/ \E c \in FwdCalls : UpstreamEnds(c)
    \/ \E c \in FwdCalls, exc \in UpstreamErrors : UpstreamDrops(c, exc)
    \/ \E c \in FwdCalls : ClientGone(c)
    \/ \E c \in FwdCalls : StreamEof(c)

SpecFwd == Init /\ [][NextFwd]_vars

\* The writer and the live viewer: every call has arrived, has had its body
\* read (turns in the order of the calls) and has been answered 200 by the
\* upstream, a state Spec reaches; from there the upstream bodies arrive,
\* the records are written and broadcast, and observers connect and replay
\* on connections that stay up.
InitAnswered ==
    /\ pc = [c \in Calls |-> "read_resp"]
    /\ arrived = [c \in Calls |-> c]
    /\ turn_counter = NumCalls
    /\ turn = [c \in Calls |-> c]
    /\ req_body = [c \in Calls |-> BodyValue("dict", FALSE)]
    /\ up = [c \in Calls |-> [status |-> 200, encoding |-> "", bytes |-> NoBytes]]
    /\ record = [c \in Calls |-> NoRecord]
    /\ client = [c \in Calls |-> NoResponse]
    /\ errors = <<>>
    /\ InitStream
    /\ InitPure
    /\ req_headers \in [Calls -> ReqHeaders]
    /\ fwd_headers = [c \in Calls |-> ForwardHeaders(req_headers[c], FALSE)]
    /\ client_headers = [c \in Calls |-> <<>>]
    /\ writer_lock = 0
    /\ log = <<>>
    /\ count = 0
    /\ live_lock = 0
    /\ live_waiters = <<>>
    /\ records = <<>>
    /\ sse_clients = <<>>
    /\ bidx = [c \in Calls |-> 0]
    /\ bcur = [c \in Calls |-> 0]
    /\ disconnected = [c \in Calls |-> <<>>]
    /\ ost = [o \in Observers |-> "idle"]
    /\ broken = [o \in Observers |-> FALSE]
    /\ got = [o \in Observers |-> <<>>]
    /\ live_stop = NotStopped

\* Upstream bodies of the live session: a JSON object, or text that is not
\* JSON.
LiveRespBytes == {[wire |-> "plain", kind |-> "object"],
                  [wire |-> "plain", kind |-> "text"]}

NextLive ==
    \/ \E c \in Calls, bytes \in LiveRespBytes : RespRead(c, bytes)
    \/ \E c \in Calls : BroadcastEnter(c)
    \/ \E c \in Calls : BroadcastWrite(c)
    \/ \E o \in Observers : Connect(o)
    \/ \E o \in Observers : ReplayEnter(o)
    \/ \E o \in Observers : ReplayWrite(o)

SpecLive == InitAnswered /\ [][NextLive]_vars

\* The record of a call that was answered, written and broadcast before the
\* calls of the session arrived.
EarlierRecord ==
    [call |-> 0, turn |-> 1, req_body |-> BodyValue("dict", FALSE),
     status |-> 200,
     resp_body |-> ParseResponse(Decompress("", [wire |-> "plain", kind |-> "object"])),
     sse |-> FALSE, sse_events |-> <<>>,
     req_headers |-> FilterHeaders(CHOOSE h \in ReqHeaders : TRUE, TRUE),
     resp_headers |-> FilterHeaders(UpstreamHeaders(""), FALSE)]

\* The writer and the live viewer with a record in the backlog: an earlier
\* call has been traced and broadcast, and every call of the session has
\* had its body read and has been answered 200, a state the proxy reaches.
\* An observer that connects now holds the broadcaster's lock while it
\* replays, and the calls' write() line up behind it.
InitBacklog ==
    /\ pc = [c \in Calls |-> "read_resp"]
    /\ arrived = <<0>> \o [c \in Calls |-> c]
    /\ turn_counter = NumCalls + 1
    /\ turn = [c \in Calls |-> c + 1]
    /\ req_body = [c \in Calls |-> BodyValue("dict", FALSE)]
    /\ up = [c \in Calls |-> [status |-> 200, encoding |-> "", bytes |-> NoBytes]]
    /\ record = [c \in Calls |-> NoRecord]
    /\ client = [c \in Calls |-> NoResponse]
    /\ errors = <<>>
    /\ InitStream
    /\ InitPure
    /\ req_headers \in [Calls -> ReqHeaders]
    /\ fwd_headers = [c \in Calls |-> ForwardHeaders(req_headers[c], FALSE)]
    /\ client_headers = [c \in Calls |-> <<>>]
    /\ writer_lock = 0
    /\ log = <<EarlierRecord>>
    /\ count = 1
    /\ live_lock = 0
    /\ live_waiters = <<>>
    /\ records = <<EarlierRecord>>
    /\ sse_clients = <<>>
    /\ bidx = [c \in Calls |-> 0]
    /\ bcur = [c \in Calls |-> 0]
    /\ disconnected = [c \in Calls |-> <<>>]
    /\ ost = [o \in Observers |-> "idle"]
    /\ broken = [o \in Observers |-> FALSE]
    /\ got = [o \in Observers |-> <<>>]
    /\ live_stop = NotStopped

SpecBacklog == InitBacklog /\ [][NextLive]_vars

\* The live viewer until it is stopped: as above, and the observers'
\* connections may be lost, the keep-alive comments are written, and stop()
\* is called at any moment.
NextObservers ==
    \/ \E o \in Observers : ConnectionLost(o)
    \/ \E o \in Observers : Leave(o)
    \/ \E o \in Observers : KeepAlive(o)
    \/ \E o \in Observers : KeepAliveDone(o)
    \/ \E o \in Observers : Wake(o)

NextStop ==
    \/ NextLive
    \/ NextObservers
    \/ Stop
    \/ StopEof
    \/ StopCleanup

SpecStop == InitAnswered /\ [][NextStop]_vars

\* An awaited write that is bound to end: the connection written to is
\* lost or its response is finished, so that the wait ends whatever the
\* peer does.
EofEnds == live_stop.pc = "eof" /\ WriteFails(live_stop.cur) /\ StopEof
ReplayEnds(o) == broken[o] /\ ReplayWrite(o)
KeepAliveEnds(o) == WriteFails(o) /\ KeepAliveDone(o)
BroadcastEnds(c) ==
    pc[c] = "bcast_write" /\ WriteFails(bcur[c]) /\ BroadcastWrite(c)

\* The event loop runs every task that is ready: a handler woken by the
\* shutdown event or by the lock goes on, a write on a lost connection
\* ends, and the runner's cleanup returns. How long a write on a
\* connection that is up waits for its transport to drain is up to the
\* peer, which may read nothing.
FairStop ==
    /\ \A o \in Observers : WF_vars(Wake(o))
    /\ \A o \in Observers : WF_vars(ReplayEnter(o))
    /\ \A o \in Observers : WF_vars(Leave(o))
    /\ \A o \in Observers : WF_vars(ReplayEnds(o))
    /\ \A o \in Observers : WF_vars(KeepAliveEnds(o))
    /\ \A c \in Calls : WF_vars(BroadcastEnter(c))
    /\ \A c \in Calls : WF_vars(BroadcastEnds(c))
    /\ WF_vars(EofEnds)
    /\ WF_vars(StopCleanup)

SpecStopFair == SpecStop /\ FairStop

\* test_e2e.py 1280-1289: a reassembler on its own, fed a byte sequence in
\* fragments of any sizes, empty ones included.
Feed(n) ==
    /\ n <= Len(test_bytes) - test_fed
    /\ test_reassembler' =
          FeedBytes(test_reassembler,
                    SubSeq(test_bytes, test_fed + 1, test_fed + n))
    /\ test_fed' = test_fed + n
    /\ UNCHANGED <<callVars, writerVars, liveVars, obsVars>>
    /\ UNCHANGED <<test_bytes, test_frames, headers, filtered, writerTestVars>>
    /\ UNCHANGED live_stop

\* The byte sequences fed: frames with CRLF line ends and a payload spread
\* over two data lines; orphan data, a line that is no field, a payload
\* that is no JSON; an event name with a two-byte character and a frame
\* left unterminated.
TestStreams ==
    {EventField \o <<SP>> \o MessageStart \o <<CR, LF>> \o
     DataField \o <<SP, "{", "}", CR, LF, CR, LF>> \o
     EventField \o ContentBlockStart \o <<LF>> \o
     DataField \o <<"{", LF>> \o DataField \o <<"}", LF, LF>>,
     DataField \o <<SP, "1", LF, ":", "x", LF>> \o
     EventField \o Ping \o <<LF>> \o DataField \o <<SP, "x", LF, LF>> \o
     StartFrame \o BlockFrame,
     EventField \o <<"C3", "A9", LF>> \o DataField \o <<"1", LF, LF>> \o
     StartFrame \o EventField \o MessageDelta \o <<LF>> \o DataField \o <<"{", "}">>}

\* test_e2e.py 603-610: the lines of two valid frames (event line, data
\* line, blank line), a `data:` line outside a frame and a line that is no
\* SSE field.
FrameLines ==
    <<EventField \o <<SP>> \o MessageStart \o <<LF>>,
      DataField \o <<SP, "{", "}", LF>>,
      <<LF>>,
      EventField \o <<SP>> \o ContentBlockStart \o <<LF>>,
      DataField \o <<SP, "{", "}", LF>>,
      <<LF>>>>
OrphanLine == DataField \o <<SP, "o", LF>>
GarbageLine == <<"n", "o", SP, "S", "S", "E", LF>>

\* The lines with one more line put after the first p of them.
InsertAt(lines, p, line) ==
    SubSeq(lines, 1, p) \o <<line>> \o SubSeq(lines, p + 1, Len(lines))

\* The places between frames: before the first frame and after a blank
\* line.
BetweenFrames ==
    {0} \cup {p \in 1..Len(FrameLines) : FrameLines[p] = <<LF>>}

\* test_e2e.py 603-610: the orphan data line followed by a blank line and
\* the garbage line followed by a blank line, after the first frame.
MalformedStream ==
    StartFrame \o OrphanLine \o <<LF>> \o GarbageLine \o <<LF>> \o BlockFrame

\* The valid frames with a garbage line at any place, with an orphan data
\* line at any place between frames, and with both.
NoisyStreams ==
    {Flatten(InsertAt(FrameLines, p, GarbageLine)) : p \in 0..Len(FrameLines)}
    \cup {Flatten(InsertAt(FrameLines, p, OrphanLine)) : p \in BetweenFrames}
    \cup {MalformedStream}

InitSSE ==
    /\ InitSession
    /\ test_bytes \in TestStreams \cup NoisyStreams
    /\ test_frames = <<>>
    /\ test_fed = 0
    /\ test_reassembler = NewReassembler
    /\ headers = <<>>
    /\ filtered = <<>>
    /\ InitWriterTest

NextSSE == \E n \in 0..Len(test_bytes) : Feed(n)

SpecSSE == InitSSE /\ [][NextSSE]_vars

\* test_e2e.py 606-607, 1291-1296: a frame whose data is no JSON document,
\* between two valid frames: truncated JSON, a bare word, two documents, no
\* data at all, and brackets nested deeper than the recursion limit.
BadPayloads ==
    {<<"{", "b">>, <<"x">>, <<"1", SP, "1">>, <<>>, <<DeepNesting>>}
BadEvents == {MessageStart, ContentBlockDelta, MessageDelta, Ping}
BadFrame(event, payload) ==
    EventField \o <<SP>> \o event \o <<LF>> \o
    DataField \o <<SP>> \o payload \o <<LF, LF>>
MalformedWith(event, payload) ==
    StartFrame \o BadFrame(event, payload) \o BlockFrame
MalformedStreams ==
    {MalformedWith(event, payload) : event \in BadEvents, payload \in BadPayloads}

InitMalformed ==
    /\ InitSession
    /\ test_bytes \in MalformedStreams
    /\ test_frames = <<>>
    /\ test_fed = 0
    /\ test_reassembler = NewReassembler
    /\ headers = <<>>
    /\ filtered = <<>>
    /\ InitWriterTest

NextMalformed == \E n \in 0..Len(test_bytes) : Feed(n)

SpecMalformed == InitMalformed /\ [][NextMalformed]_vars

\* test_e2e.py 1259-1276: a reassembler fed whole frames: the `event:` line
\* names the event, the `data:` lines hold the payload json.loads parses
\* to data, and the blank line ends the frame.
FeedFrame ==
    /\ test_fed < Len(test_frames)
    /\ LET frame == test_frames[test_fed + 1] IN
       test_reassembler' =
          Dispatch([test_reassembler EXCEPT !.current_event = frame.event],
                   frame.data)
    /\ test_fed' = test_fed + 1
    /\ UNCHANGED <<callVars, writerVars, liveVars, obsVars>>
    /\ UNCHANGED <<test_bytes, test_frames, headers, filtered, writerTestVars>>
    /\ UNCHANGED live_stop

\* The longest run of text deltas of a stream.
MaxDeltas == 3

\* A frame, and a dict of one, two or three items.
Frame(event, data) == [event |-> event, data |-> data]
MessageStop == <<"m", "e", "s", "s", "a", "g", "e", "_", "s", "t", "o", "p">>
Text == <<"t", "e", "x", "t">>
EndTurn == <<"e", "n", "d", "_", "t", "u", "r", "n">>

\* The pieces of text the deltas carry, and the seed texts of a block.
DeltaTexts == {<<"1", ",", " ">>, <<"2">>}
SeedTexts == {<<>>, <<"s">>}

\* test_e2e.py 84-131: the frames of a streamed message. message_start
\* carries the message with its usage and an empty content list (or none);
\* content_block_start opens a text block at the index with its seed text
\* (or with no text key); the deltas add text to it; then
\* content_block_stop, message_delta with the stop reason and the output
\* token count, and message_stop.
StartEvents ==
    {Frame(MessageStart,
           PyDict(<<Item("message",
                         PyDict(<<Item("id", PyStr(<<"m">>))>> \o content \o
                                <<Item("usage",
                                       PyDict(<<Item("input_tokens", PyInt(3))>>))>>))>>)) :
        content \in {<<>>, <<Item("content", PyList(<<>>))>>}}
BlockStartEvents(idx) ==
    {Frame(ContentBlockStart,
           PyDict(<<Item("index", PyInt(idx)),
                    Item("content_block",
                         PyDict(<<Item("type", PyStr(Text))>> \o text))>>)) :
        text \in {<<>>} \cup {<<Item("text", PyStr(seed))>> : seed \in SeedTexts}}
TextDeltaEvent(idx, text) ==
    Frame(ContentBlockDelta,
          PyDict(<<Item("index", PyInt(idx)),
                   Item("delta", PyDict(<<Item("type", PyStr(TextDelta)),
                                          Item("text", PyStr(text))>>))>>))
BlockStopEvent(idx) ==
    Frame(ContentBlockStop, PyDict(<<Item("index", PyInt(idx))>>))
MessageDeltaEvent ==
    Frame(MessageDelta,
          PyDict(<<Item("delta", PyDict(<<Item("stop_reason", PyStr(EndTurn))>>)),
                   Item("usage", PyDict(<<Item("output_tokens", PyInt(8))>>))>>))
MessageStopEvent == Frame(MessageStop, EmptyObject)

\* The valid streams of one text block at index 0 or 1.
ValidStreamsAt(idx) ==
    {<<start, block>> \o [i \in 1..n |-> TextDeltaEvent(idx, texts[i])] \o
     <<BlockStopEvent(idx), MessageDeltaEvent, MessageStopEvent>> :
        start \in StartEvents, block \in BlockStartEvents(idx),
        n \in 0..MaxDeltas, texts \in [1..MaxDeltas -> DeltaTexts]}
ValidStreams == ValidStreamsAt(0) \cup ValidStreamsAt(1)

\* A tool_use block opened at the index, with the empty input the upstream
\* seeds it with, and a delta carrying a piece of the JSON text of its
\* input.
ToolStartEvent(idx) ==
    Frame(ContentBlockStart,
          PyDict(<<Item("index", PyInt(idx)),
                   Item("content_block",
                        PyDict(<<Item("type", PyStr(ToolUse)),
                                 Item("input", EmptyObject)>>))>>))
InputJsonDeltaEvent(idx, partial) ==
    Frame(ContentBlockDelta,
          PyDict(<<Item("index", PyInt(idx)),
                   Item("delta", PyDict(<<Item("type", PyStr(InputJsonDelta)),
                                          Item("partial_json", PyStr(partial))>>))>>))

\* Streams with a delta or a stop that is addressed at any index, after
\* one block was started at index 0 or 1 (a start at index 1 pads slot 0
\* with an empty block), and a delta for the started block after it.
StrayIndexes == {-1, 0, 1, 2}
StrayStreams ==
    {<<start, block, stray, TextDeltaEvent(idx, <<"2">>)>> :
        start \in StartEvents,
        idx \in {0, 1},
        block \in BlockStartEvents(0) \cup BlockStartEvents(1)
                  \cup {ToolStartEvent(0)},
        stray \in {TextDeltaEvent(j, <<"2">>) : j \in StrayIndexes}
                  \cup {InputJsonDeltaEvent(j, <<"{">>) : j \in StrayIndexes}
                  \cup {BlockStopEvent(j) : j \in StrayIndexes}}

\* Streams of one tool_use block whose input arrives as one or two pieces
\* of JSON text: text that parses, text that does not, and text nested
\* deeper than json.loads can follow.
JsonPieces == {<<"{">>, <<"}">>, <<DeepNesting>>}
ToolStreams ==
    {<<start, ToolStartEvent(0), InputJsonDeltaEvent(0, first)>> \o more \o
     <<BlockStopEvent(0), MessageDeltaEvent>> :
        start \in StartEvents,
        first \in JsonPieces,
        more \in {<<>>} \cup {<<InputJsonDeltaEvent(0, p)>> : p \in JsonPieces}}

\* message_delta events: a delta with the stop reason, with a null stop
\* sequence beside it, or none; a usage with the output token count, with
\* the input token count as well, an empty one or none.
TopDeltaEvents ==
    {Frame(MessageDelta, PyDict(delta \o usage)) :
        delta \in {<<>>,
                   <<Item("delta", PyDict(<<Item("stop_reason", PyStr(EndTurn))>>))>>,
                   <<Item("delta", PyDict(<<Item("stop_reason", PyStr(EndTurn)),
                                            Item("stop_sequence", Null)>>))>>},
        usage \in {<<>>,
                   <<Item("usage", EmptyObject)>>,
                   <<Item("usage", PyDict(<<Item("output_tokens", PyInt(8))>>))>>,
                   <<Item("usage", PyDict(<<Item("input_tokens", PyInt(5)),
                                            Item("output_tokens", PyInt(8))>>))>>}}

\* A message_start whose message has no usage.
BareStartEvent ==
    Frame(MessageStart,
          PyDict(<<Item("message", PyDict(<<Item("id", PyStr(<<"m">>))>>))>>))

\* Streams of a message_start and two message_delta events.
DeltaStreams ==
    {<<start, first, second>> :
        start \in StartEvents \cup {BareStartEvent},
        first \in TopDeltaEvents,
        second \in {MessageDeltaEvent, Frame(MessageDelta, EmptyObject)}}

\* Events that come before the message_start of a stream: events for a
\* block, a message_delta, a ping, and a message_start whose payload is a
\* number or text that is no JSON; and events of types _accumulate does
\* not know.
ErrorEvent == <<"e", "r", "r", "o", "r">>
EarlyEvents ==
    BlockStartEvents(0)
        \cup {TextDeltaEvent(0, <<"2">>), BlockStopEvent(0), MessageDeltaEvent,
              Frame(Ping, EmptyObject),
              Frame(MessageStart, PyInt(1)),
              Frame(MessageStart, PyStr(<<"x">>))}
UnknownEvents ==
    {Frame(Ping, EmptyObject), MessageStopEvent,
     Frame(ErrorEvent, PyDict(<<Item("message", PyDict(<<Item("id", PyStr(<<"e">>))>>)),
                                Item("index", PyInt(0)),
                                Item("delta", PyDict(<<Item("id", PyStr(<<"e">>))>>))>>))}
EarlyStreams ==
    {<<first, second, start, unknown, TextDeltaEvent(0, <<"2">>)>> :
        first \in EarlyEvents, second \in EarlyEvents,
        start \in StartEvents, unknown \in UnknownEvents}

FrameStreams ==
    ValidStreams \cup StrayStreams \cup ToolStreams \cup DeltaStreams
        \cup EarlyStreams

InitFrames ==
    /\ InitSession
    /\ test_bytes = <<>>
    /\ test_frames \in FrameStreams
    /\ test_fed = 0
    /\ test_reassembler = NewReassembler
    /\ headers = <<>>
    /\ filtered = <<>>
    /\ InitWriterTest

NextFrames == FeedFrame

SpecFrames == InitFrames /\ [][NextFrames]_vars

\* test_e2e.py 1202-1239: filter_headers on its own.
Filter(redact_keys) ==
    /\ headers # <<>>
    /\ filtered = <<>>
    /\ filtered' = <<[redact_keys |-> redact_keys,
                      out |-> FilterHeaders(headers, redact_keys)]>>
    /\ UNCHANGED <<callVars, writerVars, liveVars, obsVars>>
    /\ UNCHANGED <<test_bytes, test_frames, test_fed, test_reassembler, headers>>
    /\ UNCHANGED <<writerTestVars, live_stop>>

\* n times the character ch.
Rep(ch, n) == [i \in 1..n |-> ch]

\* Header values: keys of every length around the threshold, with and
\* without a trailing "...", and runs of asterisks.
HeaderValues ==
    {Rep("a", i) \o Rep(".", j) : i \in 0..(RedactKeep + 1), j \in {0, 3}}
        \cup {Rep("*", k) : k \in 1..3}

\* The header lists filtered: one header, or a credential header next to
\* another header.
HeaderLists ==
    {<<[name |-> k, value |-> v]>> : k \in HeaderNames, v \in HeaderValues}
        \cup {<<[name |-> "Connection", value |-> <<"a">>],
                [name |-> k, value |-> v]>> :
                  k \in {"x-api-key", "Authorization"}, v \in HeaderValues}
        \cup {<<[name |-> k, value |-> v],
                [name |-> "content-type", value |-> <<"a">>]>> :
                  k \in {"X-Api-Key", "AUTHORIZATION"}, v \in HeaderValues}

InitHeaders ==
    /\ InitSession
    /\ test_bytes = <<>>
    /\ test_frames = <<>>
    /\ test_fed = 0
    /\ test_reassembler = NewReassembler
    /\ headers \in HeaderLists
    /\ filtered = <<>>
    /\ InitWriterTest

NextHeaders == \E redact_keys \in BOOLEAN : Filter(redact_keys)

SpecHeaders == InitHeaders /\ [][NextHeaders]_vars

\* A TraceWriter on its own: write, close and get_summary called in any
\* order, write at most MaxWrites times on the open file and get_summary at
\* most MaxSummaries times.
MaxWrites == 3
MaxSummaries == 2

TestWrite(rec) ==
    /\ test_writer.count < MaxWrites
    /\ test_writer' = WriteRecord(test_writer, rec)
    /\ UNCHANGED <<test_summaries, test_session>>
    /\ UNCHANGED <<callVars, writerVars, liveVars, obsVars>>
    /\ UNCHANGED <<test_bytes, test_frames, test_fed, test_reassembler, headers, filtered>>
    /\ UNCHANGED live_stop

TestClose ==
    /\ test_writer' = CloseWriter(test_writer)
    /\ UNCHANGED <<test_summaries, test_session>>
    /\ UNCHANGED <<callVars, writerVars, liveVars, obsVars>>
    /\ UNCHANGED <<test_bytes, test_frames, test_fed, test_reassembler, headers, filtered>>
    /\ UNCHANGED live_stop

\* get_summary() is called; the caller keeps the value, and `shown` is what
\* the value showed when it was returned.
TestSummary ==
    /\ Len(test_summaries) < MaxSummaries
    /\ test_summaries' =
          Append(test_summaries,
                 [value |-> GetSummary(test_writer),
                  shown |-> Shown(GetSummary(test_writer), test_writer)])
    /\ UNCHANGED <<test_writer, test_session>>
    /\ UNCHANGED <<callVars, writerVars, liveVars, obsVars>>
    /\ UNCHANGED <<test_bytes, test_frames, test_fed, test_reassembler, headers, filtered>>
    /\ UNCHANGED live_stop

\* proxy.py 75-78, 206-209, 234-267: the bodies of a record. A request body
\* is a JSON object with or without a model, or another JSON value, the raw
\* text or None; a response body is a JSON object with a usage object or
\* with the token counts at its top level, or the raw text.
ModelA == PyStr(<<"a">>)
ModelB == PyStr(<<"b">>)
Usage ==
    PyDict(<<Item("input_tokens", PyInt(2)), Item("output_tokens", PyInt(1))>>)
WithUsage == PyDict(<<Item("usage", Usage)>>)
TopLevelUsage == PyDict(<<Item("input_tokens", PyInt(1))>>)
CacheUsage ==
    PyDict(<<Item("output_tokens", PyInt(1)),
             Item("cache_read_input_tokens", PyInt(2)),
             Item("cache_creation_input_tokens", PyInt(1))>>)
WithCacheUsage == PyDict(<<Item("usage", CacheUsage)>>)
RawText == PyStr(<<"x">>)
TraceRecord(request, response) == [req_body |-> request, resp_body |-> response]
TestRecords ==
    {TraceRecord(PyDict(<<Item("model", ModelA)>>), WithUsage),
     TraceRecord(PyDict(<<Item("model", ModelB)>>), TopLevelUsage),
     TraceRecord(PyDict(<<Item("model", ModelB)>>), WithCacheUsage),
     TraceRecord(PyDict(<<Item("model", ModelA)>>), RawText),
     TraceRecord(EmptyObject, WithUsage),
     TraceRecord(RawText, WithUsage),
     TraceRecord(Null, WithUsage)}

InitWriter ==
    /\ InitSession
    /\ test_bytes = <<>>
    /\ test_frames = <<>>
    /\ test_fed = 0
    /\ test_reassembler = NewReassembler
    /\ headers = <<>>
    /\ filtered = <<>>
    /\ InitWriterTest

NextWriter ==
    \/ \E rec \in TestRecords : TestWrite(rec)
    \/ TestClose
    \/ TestSummary

SpecWriter == InitWriter /\ [][NextWriter]_vars

\* The writer and the session around it. A request handler starts while
\* the proxy still accepts requests, and ends by writing its record
\* (proxy.py 175, 225) or without writing one (proxy.py 104-109, or an
\* exception leaving it).
HandlerStarts(c) ==
    /\ test_session.handlers[c] = "idle"
    /\ test_session.shutdown \in {"running", "session_closed"}
    /\ test_session' = [test_session EXCEPT !.handlers[c] = "running"]
    /\ UNCHANGED <<test_writer, test_summaries>>
    /\ UNCHANGED <<callVars, writerVars, liveVars, obsVars>>
    /\ UNCHANGED <<test_bytes, test_frames, test_fed, test_reassembler, headers, filtered>>
    /\ UNCHANGED live_stop

HandlerWrites(c, rec) ==
    /\ test_session.handlers[c] \in {"running", "cancelled"}
    /\ test_writer' = WriteRecord(test_writer, rec)
    /\ test_session' = [test_session EXCEPT !.handlers[c] = "done"]
    /\ UNCHANGED test_summaries
    /\ UNCHANGED <<callVars, writerVars, liveVars, obsVars>>
    /\ UNCHANGED <<test_bytes, test_frames, test_fed, test_reassembler, headers, filtered>>
    /\ UNCHANGED live_stop

HandlerEnds(c) ==
    /\ test_session.handlers[c] \in {"running", "cancelled"}
    /\ test_session' = [test_session EXCEPT !.handlers[c] = "done"]
    /\ UNCHANGED <<test_writer, test_summaries>>
    /\ UNCHANGED <<callVars, writerVars, liveVars, obsVars>>
    /\ UNCHANGED <<test_bytes, test_frames, test_fed, test_reassembler, headers, filtered>>
    /\ UNCHANGED live_stop

\* cli.py 167-170: await session.close()
SessionClose ==
    /\ test_session.shutdown = "running"
    /\ test_session' = [test_session EXCEPT !.shutdown = "session_closed"]
    /\ UNCHANGED <<test_writer, test_summaries>>
    /\ UNCHANGED <<callVars, writerVars, liveVars, obsVars>>
    /\ UNCHANGED <<test_bytes, test_frames, test_fed, test_reassembler, headers, filtered>>
    /\ UNCHANGED live_stop

\* cli.py 171-174: await runner.cleanup(). The proxy stops accepting
\* requests; the handlers still running when the shutdown timeout ends are
\* cancelled. A handler cancelled in its streaming loop catches the
\* CancelledError (proxy.py 137-142) and goes on to write its record.
RunnerCleanup ==
    /\ test_session.shutdown = "session_closed"
    /\ test_session' =
          [handlers |-> [c \in Calls |->
                            IF test_session.handlers[c] = "running"
                            THEN "cancelled" ELSE test_session.handlers[c]],
           shutdown |-> "proxy_down"]
    /\ UNCHANGED <<test_writer, test_summaries>>
    /\ UNCHANGED <<callVars, writerVars, liveVars, obsVars>>
    /\ UNCHANGED <<test_bytes, test_frames, test_fed, test_reassembler, headers, filtered>>
    /\ UNCHANGED live_stop

\* cli.py 176-181: await live_server.stop()
LiveStop ==
    /\ test_session.shutdown = "proxy_down"
    /\ test_session' = [test_session EXCEPT !.shutdown = "live_stopped"]
    /\ UNCHANGED <<test_writer, test_summaries>>
    /\ UNCHANGED <<callVars, writerVars, liveVars, obsVars>>
    /\ UNCHANGED <<test_bytes, test_frames, test_fed, test_reassembler, headers, filtered>>
    /\ UNCHANGED live_stop

\* cli.py 183-184: writer.close()
WriterClose ==
    /\ test_session.shutdown = "live_stopped"
    /\ test_writer' = CloseWriter(test_writer)
    /\ test_session' = [test_session EXCEPT !.shutdown = "writer_closed"]
    /\ UNCHANGED test_summaries
    /\ UNCHANGED <<callVars, writerVars, liveVars, obsVars>>
    /\ UNCHANGED <<test_bytes, test_frames, test_fed, test_reassembler, headers, filtered>>
    /\ UNCHANGED live_stop

\* cli.py 201: stats = writer.get_summary()
PrintSummary ==
    /\ test_session.shutdown = "writer_closed"
    /\ test_summaries' =
          <<[value |-> GetSummary(test_writer),
             shown |-> Shown(GetSummary(test_writer), test_writer)]>>
    /\ test_session' = [test_session EXCEPT !.shutdown = "summarised"]
    /\ UNCHANGED test_writer
    /\ UNCHANGED <<callVars, writerVars, liveVars, obsVars>>
    /\ UNCHANGED <<test_bytes, test_frames, test_fed, test_reassembler, headers, filtered>>
    /\ UNCHANGED live_stop

\* The records of the session: one _update_stats takes, one it raises on.
SessionRecords ==
    {TraceRecord(PyDict(<<Item("model", ModelA)>>), WithUsage),
     TraceRecord(Null, WithUsage)}

NextShutdown ==
    \/ \E c \in Calls : HandlerStarts(c)
    \/ \E c \in Calls, rec \in SessionRecords : HandlerWrites(c, rec)
    \/ \E c \in Calls : HandlerEnds(c)
    \/ SessionClose
    \/ RunnerCleanup
    \/ LiveStop
    \/ WriterClose
    \/ PrintSummary

SpecShutdown == InitWriter /\ [][NextShutdown]_vars

----------------------------------------------------------------------------
(* Properties.                                                             *)

\* The handler of call c has ended: it returned or an exception left it.
Ended(c) ==
    pc[c] \in {"done", "parse_raised", "write_raised", "bcast_raised",
               "stream_raised"}

\* Call c received an upstream response.
Answered(c) == up[c].status # 0

\* broadcast(record) of call c is between its backlog append and its return.
Broadcasting(c) == pc[c] = "bcast_write"

\* The records of a list are pairwise distinct.
NoDuplicates(s) == \A i, j \in 1..Len(s) : i # j => s[i] # s[j]

\* C1. Gap-free delivery: whenever no broadcast is in progress, an observer
\* that is connected (replay done, live) and whose connection has not
\* failed has received every record of the backlog.
C1_GapFreeDelivery ==
    (\A c \in Calls : ~Broadcasting(c)) =>
        \A o \in Observers :
            (ost[o] = "live" /\ ~broken[o]) =>
                \A i \in 1..Len(records) : InList(records[i], got[o])

\* C2. Duplicate-free delivery: no observer is ever sent the same record
\* twice, neither by replay plus live feed nor by the live feed alone.
C2_DuplicateFreeDelivery ==
    \A o \in Observers : NoDuplicates(got[o])

BodyReadCompletes(c) == pc[c] = "read_body" /\ pc'[c] # "read_body"

C5_ClientGetsUpstreamResponse ==
    \A c \in Calls :
        (Ended(c) /\ Answered(c) /\ ~record[c].sse) =>
            client[c] = [status |-> up[c].status, body |-> up[c].bytes]

\* C6. Every call that received an upstream response produces exactly one
\* Trace Record carrying the upstream status and the body as parsed value,
\* raw string or null, and write(record) does not raise.
C6_AnomalyNeverFatal ==
    \A c \in Calls :
        (Ended(c) /\ Answered(c)) =>
            /\ Cardinality({i \in 1..Len(log) : log[i].call = c}) = 1
            /\ \A i \in 1..Len(log) :
                  log[i].call = c =>
                      /\ log[i].status = up[c].status
                      /\ log[i].resp_body.tag \in {"dict", "json", "str", "null"}
            /\ pc[c] # "write_raised"

\* C7. The response to the original client never waits for an observer:
\* a handler that waits for an observer's write (in broadcast's loop, or for
\* the lock an observer holds while it replays) has already answered.
C7_FanOutNeverBlocks ==
    \A c \in Calls :
        pc[c] \in {"bcast_lock", "bcast_write"} => client[c] # NoResponse

\* C8. Persist before publish: every record in the backlog or sent to an
\* observer is in the flushed log, and a call that has entered broadcast
\* has its line in the log and does not hold the writer's lock.
C8_PersistBeforePublish ==
    /\ \A i \in 1..Len(records) : InList(records[i], log)
    /\ \A o \in Observers : \A i \in 1..Len(got[o]) : InList(got[o][i], log)
    /\ \A c \in Calls :
          pc[c] \in {"bcast_lock", "bcast_write"} =>
              InList(record[c], log) /\ writer_lock # c

\* C8 witness: an observer holds one record from its replay and a second
\* from a broadcast still in progress.
C8_Witness ==
    \E o \in Observers, c \in Calls :
        /\ Broadcasting(c)
        /\ Len(got[o]) = 2
        /\ got[o][2] = record[c]

\* C9. Every record appended to the log is handed to the broadcaster: once
\* the call's handler has ended, its logged record is in the backlog.
C9_AppendFeedsBroadcaster ==
    \A c \in Calls :
        (Ended(c) /\ InList(record[c], log)) => InList(record[c], records)

\* C10. Failure isolation: broadcast never raises to its caller, and it
\* removes from the subscriber set only observers whose write failed, so
\* an observer that is live on an intact connection stays subscribed.
C10_BroadcastIsolatesFailure ==
    /\ \A c \in Calls : pc[c] # "bcast_raised"
    /\ \A o \in Observers :
          (ost[o] = "live" /\ ~broken[o]) => InList(o, sse_clients)

\* The place of record r in the backlog.
BacklogIndex(r) == CHOOSE k \in 1..Len(records) : records[k] = r

\* C11. In-order delivery: the records an observer has been sent (replay
\* followed by live frames) are in backlog order: it is never sent a record
\* before another that precedes it in the backlog.
C11_InOrderDelivery ==
    \A o \in Observers :
        \A i, j \in 1..Len(got[o]) :
            i < j => BacklogIndex(got[o][i]) <= BacklogIndex(got[o][j])

\* C12. Mutual exclusion of appends: between any two steps of the event
\* loop no handler is inside write's critical section (the section has no
\* suspension point, so at most one handler is ever in it), every line of
\* the log is the whole record of one call, no call has two lines, and no
\* count update is lost: count is the number of lines.
C12_AppendsMutuallyExclusive ==
    /\ writer_lock = 0
    /\ count = Len(log)
    /\ \A i \in 1..Len(log) : log[i] = record[log[i].call]
    /\ \A i, j \in 1..Len(log) : log[i].call = log[j].call => i = j

\* C12 witness: every call has written while the others were in flight,
\* and the first writer's _update_stats raised inside the section, which
\* released the lock for the writers after it.
C12_Witness ==
    /\ count = NumCalls
    /\ Len(log) = NumCalls
    /\ pc[log[1].call] = "write_raised"
    /\ log[1].call = arrived[NumCalls]

\* The step in which call c calls write(record): the record is built and
\* written in one step.
WriteCalled(c) == record[c] = NoRecord /\ record'[c] # NoRecord

\* C13. The log is append-only and order-preserving: a step in which a
\* handler calls write(record) appends exactly that record as the last
\* line, leaving the lines before it as they were, and no other step
\* changes the log.
C13_LogAppendOnly ==
    [][/\ \A c \in Calls : WriteCalled(c) => log' = Append(log, record'[c])
       /\ (\A c \in Calls : ~WriteCalled(c)) => log' = log
       /\ Len(log') >= Len(log)
       /\ SubSeq(log', 1, Len(log)) = log]_vars

\* C13 witness: a streamed call's line is followed by the line of a call
\* that was given its turn earlier.
C13_Witness ==
    /\ Len(log) = NumCalls
    /\ log[1].sse
    /\ log[1].turn > log[NumCalls].turn

\* C14. Chunk-boundary invariance: however the bytes fed so far were split
\* into fragments, the reassembler is in the state (Wire Event list,
\* snapshot, pending frame and line buffer) that feeding the same bytes in
\* one call gives.
C14_ChunkBoundaryInvariance ==
    test_reassembler =
        FeedBytes(NewReassembler, SubSeq(test_bytes, 1, test_fed))

\* C14 witness: the bytes fed so far end in the middle of a line, inside a
\* frame that already has a data line and follows a parsed frame.
C14_Witness ==
    /\ test_fed < Len(test_bytes)
    /\ test_reassembler.buf # <<>>
    /\ test_reassembler.current_event # NoEvent
    /\ test_reassembler.current_data_lines # <<>>
    /\ test_reassembler.events # <<>>
    /\ test_reassembler.snapshot # Null

\* Call c took the streaming branch.
Streamed(c) == Answered(c) /\ IsStreaming(req_body[c]) /\ up[c].status = 200

\* The lines of the log that belong to call c.
LinesOf(c) == {i \in 1..Len(log) : log[i].call = c}

\* s is a prefix of t.
IsPrefix(s, t) == Len(s) <= Len(t) /\ SubSeq(t, 1, Len(s)) = s

\* The reassembler fed all of the given chunks.
FeedAll(cs) == FeedBytes(NewReassembler, Flatten(cs))

\* The one line of call c holds the events and the snapshot of what its
\* reassembler was fed.
TracedFromFed(c) ==
    /\ Cardinality(LinesOf(c)) = 1
    /\ \A i \in LinesOf(c) :
          /\ log[i] = record[c]
          /\ log[i].sse
          /\ log[i].sse_events = FeedAll(fed[c]).events
          /\ log[i].resp_body = FeedAll(fed[c]).snapshot

C16_UpstreamDropStillTraced ==
    \A c \in Calls : (Streamed(c) /\ Ended(c)) => TracedFromFed(c)

\* C17. In the streaming branch the chunks received are a prefix of the
\* upstream's stream, the chunks handed to the client a prefix of those
\* received and the chunks fed to the reassembler a prefix of those handed
\* to the client, at most one chunk behind each; the reassembler holds
\* what feeding those chunks gives; and a chunk is fed only in the step in
\* which its write to the client returns.
C17_StreamSinksInOrder ==
    /\ [](\A c \in Calls :
             /\ IsPrefix(chunks[c], upstream[c])
             /\ IsPrefix(sent[c], chunks[c])
             /\ IsPrefix(fed[c], sent[c])
             /\ Len(chunks[c]) <= Len(sent[c]) + 1
             /\ Len(sent[c]) <= Len(fed[c]) + 1
             /\ pc[c] = "client_write" => Len(sent[c]) = Len(fed[c]) + 1
             /\ pc[c] = "stream" => fed[c] = chunks[c]
             /\ ~client_gone[c] => sent[c] = chunks[c]
             /\ reassembler[c] = FeedAll(fed[c]))
    /\ [][\A c \in Calls :
             fed'[c] # fed[c] =>
                 /\ pc[c] = "client_write" /\ pc'[c] = "stream"
                 /\ fed'[c] = sent[c]]_vars

\* C17 witness: the second chunk is with the client's transport, its
\* write not yet returned, and the reassembler has been fed the first.
C17_Witness ==
    \E c \in Calls :
        /\ pc[c] = "client_write"
        /\ Len(sent[c]) = 2
        /\ Len(fed[c]) = 1
        /\ reassembler[c].buf # <<>>

\* The step in which call c finds the upstream unreachable.
UpstreamUnreachable(c) == pc[c] = "request" /\ pc'[c] = "done"

\* C18. When the upstream cannot be reached the client gets a 502 carrying
\* the error text and the failure is logged, and that step leaves the log,
\* the writer's count and the backlog as they were; the call never has a
\* record, a line or a backlog entry.
C18_UnreachableLeavesNoTrace ==
    /\ [](\A c \in Calls :
             InList(c, errors) =>
                 /\ client[c] = [status |-> 502, body |-> ErrorText]
                 /\ record[c] = NoRecord
                 /\ LinesOf(c) = {}
                 /\ \A i \in 1..Len(records) : records[i].call # c)
    /\ [][\A c \in Calls :
             UpstreamUnreachable(c) =>
                 /\ client'[c] = [status |-> 502, body |-> ErrorText]
                 /\ errors' = Append(errors, c)
                 /\ log' = log /\ count' = count /\ records' = records]_vars

\* C18 witness: a call has been answered 502 after another call's line
\* was written, and the log still holds that one line.
C18_Witness ==
    \E c, d \in Calls :
        /\ InList(c, errors)
        /\ client[c].status = 502
        /\ turn[c] < turn[d]
        /\ Len(log) = 1
        /\ log[1].call = d
        /\ count = 1

\* C19. At most one Trace Record per call: no call has two lines in the
\* log, no turn number appears on two lines, and no step appends more than
\* one line.
C19_AtMostOneRecordPerCall ==
    /\ [](/\ \A c \in Calls : Cardinality(LinesOf(c)) <= 1
          /\ \A i, j \in 1..Len(log) :
                (log[i].call = log[j].call \/ log[i].turn = log[j].turn) => i = j)
    /\ [][Len(log') <= Len(log) + 1]_vars

\* C19 witness: every call has ended, one streamed to a client that went
\* away and traced once, another unreachable upstream and not traced.
C19_Witness ==
    \E c, d \in Calls :
        /\ \A e \in Calls : Ended(e)
        /\ client_gone[c]
        /\ Cardinality(LinesOf(c)) = 1
        /\ InList(d, errors)
        /\ LinesOf(d) = {}

\* C20. Credential redaction: for every header named x-api-key or
\* authorization in any letter case, and every value of it, the value
\* filter_headers(..., redact_keys=True) stores under that name differs
\* from the original value.
C20_CredentialNeverStoredVerbatim ==
    \A f \in 1..Len(filtered) :
        filtered[f].redact_keys =>
            \A i \in 1..Len(headers) :
                Lower(headers[i].name) \in CredentialNames =>
                    \A j \in 1..Len(filtered[f].out) :
                        filtered[f].out[j].name = headers[i].name =>
                            filtered[f].out[j].value # headers[i].value

\* Call c has computed the headers it passes to the upstream.
Forwarding(c) == pc[c] \notin {"idle", "read_body"}

\* C21. Redaction affects only the record: for every request, the headers
\* passed to the upstream hold each credential header of the client with
\* its value unchanged, and once the call has ended with an upstream
\* response the client has the upstream's status, the upstream's headers
\* (without the hop-by-hop ones) and the upstream's body (for a streamed
\* response, the chunks forwarded of it).
C21_RedactionOnlyInRecord ==
    \A c \in Calls :
        /\ Forwarding(c) =>
              \A i \in 1..Len(req_headers[c]) :
                  Lower(req_headers[c][i].name) \in CredentialNames =>
                      InList(req_headers[c][i], fwd_headers[c])
        /\ (Ended(c) /\ Answered(c)) =>
              /\ client_headers[c] = ResponseHeaders(UpstreamHeaders(up[c].encoding))
              /\ client[c].status = up[c].status
              /\ IF Streamed(c)
                 THEN client[c] = StreamedResponse(c) /\ IsPrefix(sent[c], upstream[c])
                 ELSE client[c].body = up[c].bytes

\* C22. The headers passed to the upstream hold no hop-by-hop header and
\* no Host header, in whatever letter case the name came, and hold every
\* other inbound header with its value unchanged.
C22_ForwardedHeadersFiltered ==
    \A c \in Calls :
        Forwarding(c) =>
            /\ \A j \in 1..Len(fwd_headers[c]) :
                  Lower(fwd_headers[c][j].name) \notin HOP_BY_HOP \cup {"host"}
            /\ \A i \in 1..Len(req_headers[c]) :
                  Lower(req_headers[c][i].name) \notin HOP_BY_HOP \cup {"host"} =>
                      InList(req_headers[c][i], fwd_headers[c])

\* The frames fed so far.
FramesFed == SubSeq(test_frames, 1, test_fed)

\* "".join of the texts of the text deltas among the given frames.
RECURSIVE DeltaText(_)
DeltaText(frames) ==
    IF frames = <<>> THEN <<>>
    ELSE (IF Head(frames).event = ContentBlockDelta
          THEN Get(Get(Head(frames).data, "delta", EmptyObject), "text",
                   PyStr(<<>>)).text
          ELSE <<>>) \o DeltaText(Tail(frames))

\* C23. For every valid stream (message_start, content_block_start, text
\* deltas, content_block_stop, message_delta, message_stop), once the
\* block has been started the text of the addressed content block in the
\* snapshot is the block's seed text (none: the empty text) followed by
\* the texts of the deltas fed so far, in arrival order; and the Wire
\* Event list holds the frames fed so far, one entry per frame.
C23_TextIsSeedPlusDeltas ==
    test_frames \in ValidStreams =>
        /\ test_reassembler.events = FramesFed
        /\ test_fed >= 2 =>
              LET block == test_frames[2].data
                  seed == Get(Get(block, "content_block", EmptyObject), "text",
                              PyStr(<<>>)).text
                  content == Get(Reconstruct(test_reassembler), "content", Null) IN
              /\ IsList(content)
              /\ Len(content.elems) = Get(block, "index", Null).n + 1
              /\ Get(content.elems[Len(content.elems)], "text", PyStr(<<>>))
                    = PyStr(seed \o DeltaText(FramesFed))

\* C23 witness: a whole stream has been fed whose block has a seed text and
\* got three deltas, not all the same.
C23_Witness ==
    /\ test_frames \in ValidStreams
    /\ test_fed = Len(test_frames)
    /\ Len(test_frames) = 8
    /\ test_frames[3] # test_frames[4]
    /\ Get(Get(test_frames[2].data, "content_block", EmptyObject), "text",
           PyStr(<<>>)).text # <<>>
    /\ Len(Get(Get(Reconstruct(test_reassembler), "content", Null).elems[1],
               "text", Null).text) > 3

\* The bytes without their garbage lines and their orphan data lines: a
\* line is in a frame from an `event:` line up to the next blank line; a
\* `data:` line outside a frame is an orphan, and a line that is no event
\* line, no data line and not blank is garbage. The unterminated last line
\* stays.
RECURSIVE Clean(_, _)
Clean(bytes, in_frame) ==
    IF \A k \in 1..Len(bytes) : bytes[k] # LF THEN bytes
    ELSE LET k == FirstLF(bytes)
             whole == SubSeq(bytes, 1, k)
             line == RStripCR(SubSeq(bytes, 1, k - 1))
             rest == SubSeq(bytes, k + 1, Len(bytes))
         IN  IF StartsWith(line, EventField) THEN whole \o Clean(rest, TRUE)
             ELSE IF StartsWith(line, DataField)
             THEN (IF in_frame THEN whole ELSE <<>>) \o Clean(rest, in_frame)
             ELSE IF line = <<>> THEN whole \o Clean(rest, FALSE)
             ELSE Clean(rest, in_frame)

\* The bytes fed so far.
BytesFed == SubSeq(test_bytes, 1, test_fed)

\* C24. Orphan data lines and garbage lines contribute nothing: the Wire
\* Event list and the snapshot are those of the same bytes with the orphan
\* data lines and the garbage lines removed, and no event's data holds the
\* text of an orphan data line.
C24_NoiseContributesNothing ==
    LET clean == FeedBytes(NewReassembler, Clean(BytesFed, FALSE)) IN
    /\ test_reassembler.events = clean.events
    /\ Reconstruct(test_reassembler) = Reconstruct(clean)
    /\ test_bytes \in NoisyStreams =>
          \A i \in 1..Len(test_reassembler.events) :
              test_reassembler.events[i].data = EmptyObject

\* C24 witness: the stream with an orphan data line and a garbage line
\* after its first frame is fed to its end, and the frame after them was
\* parsed and accumulated.
C24_Witness ==
    /\ test_bytes = MalformedStream
    /\ test_fed = Len(test_bytes)
    /\ Clean(BytesFed, FALSE) # BytesFed
    /\ Len(test_reassembler.events) = 2
    /\ test_reassembler.events[2].event = ContentBlockStart
    /\ Reconstruct(test_reassembler) # Null

\* C25. A terminated frame with an event type whose data is no valid JSON
\* raises nothing, is appended to the Wire Event list with the raw data
\* string as its data, leaves the snapshot as it was, and the frame after
\* it is parsed and accumulated.
C25_BadJsonKeptAsString ==
    \A event \in BadEvents, payload \in BadPayloads :
        test_bytes = MalformedWith(event, payload) =>
            /\ ~test_reassembler.raised
            /\ test_fed >= Len(StartFrame \o BadFrame(event, payload)) =>
                  /\ Len(test_reassembler.events) >= 2
                  /\ test_reassembler.events[2] =
                        [event |-> event, data |-> PyStr(Strip(payload))]
            /\ /\ test_fed >= Len(StartFrame \o BadFrame(event, payload))
               /\ test_fed < Len(test_bytes)
               => Reconstruct(test_reassembler) =
                     Reconstruct(FeedBytes(NewReassembler, StartFrame))
            /\ test_fed = Len(test_bytes) =>
                  /\ Len(test_reassembler.events) = 3
                  /\ Reconstruct(test_reassembler) =
                        Reconstruct(FeedBytes(NewReassembler,
                                              StartFrame \o BlockFrame))

\* C28. Once close() has returned, no write(record) call appends to the
\* log, changes the aggregates (count, token sums, per-model counts) or
\* broadcasts its record; and the shutdown sequence has closed the writer
\* only after the proxy's request handlers were shut down: none is still
\* running uncancelled, and none starts afterwards.
C28_NoWriteAfterClose ==
    /\ [](test_writer.closed =>
            /\ test_session.shutdown \in {"writer_closed", "summarised"}
            /\ \A c \in Calls : test_session.handlers[c] # "running")
    /\ [][test_writer.closed =>
            /\ test_writer'.closed
            /\ test_writer'.file = test_writer.file
            /\ test_writer'.count = test_writer.count
            /\ test_writer'.total_input_tokens = test_writer.total_input_tokens
            /\ test_writer'.total_output_tokens = test_writer.total_output_tokens
            /\ test_writer'.total_cache_read_tokens =
                  test_writer.total_cache_read_tokens
            /\ test_writer'.total_cache_create_tokens =
                  test_writer.total_cache_create_tokens
            /\ test_writer'.models_used = test_writer.models_used
            /\ test_writer'.broadcast = test_writer.broadcast
            /\ \A c \in Calls :
                  test_session'.handlers[c] = "running" =>
                      test_session.handlers[c] = "running"]_vars

\* C28 witness: a handler cancelled by the shutdown called write after
\* close() on a writer that had written a record before: the call raised.
C28_Witness ==
    /\ test_writer.closed
    /\ test_writer.raised
    /\ test_writer.file # <<>>
    /\ test_writer.broadcast # <<>>
    /\ \E c \in Calls : test_session.handlers[c] = "done"

\* A summary's values as they are read now, and as they were when
\* get_summary returned them.
Unchanged(summary) == Shown(summary.value, test_writer) = summary.shown

\* C29. summary() returns a read-only snapshot: a value it has returned is
\* not changed by the writes that complete afterwards, neither its counts,
\* its token sums nor its per-model map.
C29_SummaryIsSnapshot ==
    \A i \in 1..Len(test_summaries) : Unchanged(test_summaries[i])

\* The model a record counts under: the one its request body declares,
\* "unknown" for an object without a model, a raw string or null.
DeclaredModel(rec) ==
    IF IsDict(rec.req_body) THEN Get(rec.req_body, "model", Unknown) ELSE Unknown

\* The number of written records that count under a model.
WrittenFor(model) ==
    Cardinality({i \in 1..Len(test_writer.file) :
                    DeclaredModel(test_writer.file[i]) = model})

\* C30. After any sequence of write() calls every written record has
\* incremented exactly one per-model counter, the one of its declared model
\* or "unknown": each counter is the number of written records of its
\* model, so the counters sum to the number of records written.
C30_PerModelCountersSumToRecords ==
    /\ \A i \in 1..Len(test_writer.file) :
          LET model == DeclaredModel(test_writer.file[i]) IN
          Get(test_writer.models_used, model, 0) = WrittenFor(model)
    /\ \A i \in 1..Len(test_writer.models_used.items) :
          LET item == test_writer.models_used.items[i] IN
          item.value = WrittenFor(item.name)


\* How far an observer's connection is: connecting (the response is being
\* prepared or the lock awaited), replaying the backlog, live (registered,
\* in its keep-alive loop), closed (its handler has ended).
Stage(o) ==
    CASE ost[o] \in {"idle", "lock_wait"} -> 0
      [] ost[o] = "replaying" -> 1
      [] ost[o] \in {"live", "keepalive"} -> 2
      [] ost[o] = "closed" -> 3

\* The frame a step sends to observer o is the next record of the backlog
\* it replays.
ReplayFrame(o, rec) ==
    /\ ost[o] = "replaying"
    /\ Len(got[o]) < Len(records)
    /\ rec = records[Len(got[o]) + 1]

\* The frame a step sends to observer o is the record a call has begun to
\* write to it in its broadcast.
LiveFrame(o, rec) ==
    /\ Stage(o) = 2
    /\ InList(o, sse_clients)
    /\ \E c \in Calls : /\ pc'[c] = "bcast_write"
                        /\ bcur'[c] = o
                        /\ bidx'[c] # bidx[c]
                        /\ rec = record'[c]

\* C26: an observer's connection moves only forward through connecting,
\* replaying, live and closed. Only a live observer is in the list of
\* clients; nothing is sent to a connecting one; a replaying one has been
\* sent the beginning of the backlog, and what it is sent next is the
\* backlog's next record; what a live one is sent is the record of a
\* broadcast under way; and nothing is sent to an observer whose handler
\* has ended or whose response stop() has finished.
C26_ObserverMovesForward ==
    /\ [](\A o \in Observers :
            /\ InList(o, sse_clients) => Stage(o) = 2
            /\ Stage(o) = 0 => got[o] = <<>>
            /\ ost[o] = "replaying" =>
                  /\ live_lock = o
                  /\ IsPrefix(got[o], records)
                  /\ Len(got[o]) < Len(records))
    /\ [][\A o \in Observers :
            /\ Stage(o)' >= Stage(o)
            /\ got'[o] # got[o] =>
                  /\ Stage(o) \in {1, 2}
                  /\ o \notin live_stop.eof_sent
                  /\ \E rec \in {record'[c] : c \in Calls}
                               \cup {records[i] : i \in 1..Len(records)} :
                        /\ got'[o] = Append(got[o], rec)
                        /\ ReplayFrame(o, rec) \/ LiveFrame(o, rec)]_vars

\* An observer that was sent a record is closed, stop() having been called,
\* and a later record has been written that it was not sent.
C26_Witness ==
    \E o \in Observers :
        /\ ost[o] = "closed"
        /\ live_stop.event
        /\ got[o] # <<>>
        /\ \E i \in 1..Len(records) : ~InList(records[i], got[o])


\* No observer's connection is open and the list of clients is empty.
AllClosed ==
    /\ sse_clients = <<>>
    /\ \A o \in Observers : ost[o] \in {"idle", "closed"}

\* C27: once stop() has been called, every observer's connection is
\* closed in the end and the list of clients is empty from then on.
C27_StopClosesEveryObserver == live_stop.event ~> []AllClosed


\* The counter of a record's response.body.usage, 0 when the response body
\* has no usage object or the usage object lacks the counter.
UsageCounter(rec, key) ==
    IF IsDict(rec.resp_body) /\ Has(rec.resp_body, "usage")
    THEN LET usage == Get(rec.resp_body, "usage", EmptyObject) IN
         IF IsDict(usage) /\ Has(usage, key) /\ IsInt(Get(usage, key, PyInt(0)))
         THEN Get(usage, key, PyInt(0)).n
         ELSE 0
    ELSE 0

\* The sum of a usage counter over the records written.
RECURSIVE SumOfUsage(_, _)
SumOfUsage(file, key) ==
    IF file = <<>> THEN 0
    ELSE UsageCounter(Head(file), key) + SumOfUsage(Tail(file), key)

\* C31. After any sequence of write() calls each of the four token totals
\* is the sum, over the records written, of the corresponding counter of
\* the record's response.body.usage, a record without a usage object or
\* without the counter adding 0.
C31_TotalsSumUsage ==
    /\ test_writer.total_input_tokens =
          SumOfUsage(test_writer.file, "input_tokens")
    /\ test_writer.total_output_tokens =
          SumOfUsage(test_writer.file, "output_tokens")
    /\ test_writer.total_cache_read_tokens =
          SumOfUsage(test_writer.file, "cache_read_input_tokens")
    /\ test_writer.total_cache_create_tokens =
          SumOfUsage(test_writer.file, "cache_creation_input_tokens")


\* A success status of HTTP.
Success(status) == status \in 200..299

\* The record was made for a streamed call: the request asked for
\* streaming and the upstream answered with a success status.
OfStreamedCall(rec) == IsStreaming(rec.req_body) /\ Success(rec.status)

\* C32. A record carries sse_events if and only if the request asked for
\* streaming and the upstream answered with a success status; every other
\* answered call is read in full, returned to the client as the upstream's
\* status and bytes, and recorded once without sse_events.
C32_SseEventsIffStreamed ==
    /\ \A i \in 1..Len(log) : log[i].sse <=> OfStreamedCall(log[i])
    /\ \A c \in Calls :
          (Ended(c) /\ Answered(c)
             /\ ~(IsStreaming(req_body[c]) /\ Success(up[c].status))) =>
              /\ Cardinality(LinesOf(c)) = 1
              /\ client[c] = [status |-> up[c].status, body |-> up[c].bytes]


\* The frame fed next, and whether a step feeds it.
NextFrame == test_frames[test_fed + 1]
FrameIsFed == test_fed < Len(test_frames) /\ test_fed' = test_fed + 1

\* A content_block_delta or content_block_stop frame.
ForBlock(frame) == frame.event \in {ContentBlockDelta, ContentBlockStop}

\* No content_block_start fed so far was addressed at the frame's index.
NeverStarted(frame) ==
    \A k \in 1..test_fed :
        test_frames[k].event = ContentBlockStart =>
            Get(test_frames[k].data, "index", Null)
                # Get(frame.data, "index", PyInt(0))

\* The length of the snapshot's content list (0 without one).
ContentLen(snapshot) ==
    IF IsDict(snapshot) /\ IsList(Get(snapshot, "content", Null))
    THEN Len(Get(snapshot, "content", Null).elems)
    ELSE 0

\* C33 (as stated). A content_block_delta or content_block_stop addressed
\* at an index that no content_block_start has addressed leaves the
\* snapshot unchanged, whether the index lies inside or outside the
\* content list; the event is appended to the events list.
C33_UnstartedIndexIgnored ==
    [][(FrameIsFed /\ ForBlock(NextFrame) /\ NeverStarted(NextFrame)) =>
          /\ test_reassembler'.snapshot = test_reassembler.snapshot
          /\ test_reassembler'.events = Append(test_reassembler.events, NextFrame)]_vars

\* C33 (amended). A content_block_delta or content_block_stop addressed at
\* an index at or past the end of the content list leaves the snapshot
\* unchanged; the event is appended to the events list.
C33_IndexPastEndIgnored ==
    [][(FrameIsFed /\ ForBlock(NextFrame)
          /\ Get(NextFrame.data, "index", PyInt(0)).n
                >= ContentLen(test_reassembler.snapshot)) =>
          /\ test_reassembler'.snapshot = test_reassembler.snapshot
          /\ test_reassembler'.events = Append(test_reassembler.events, NextFrame)]_vars

\* A text delta addressed past the end of a content list that holds a
\* block has been fed.
C33_Witness ==
    /\ test_fed = 3
    /\ test_frames[3].event = ContentBlockDelta
    /\ ContentLen(test_reassembler.snapshot) >= 1
    /\ Get(test_frames[3].data, "index", PyInt(0)).n
          >= ContentLen(test_reassembler.snapshot)


\* The block of the snapshot a frame is addressed at.
SlotOf(snapshot, frame) == BlockAt(snapshot, frame.data)

\* The frame is a content_block_stop for a slot that holds a staging
\* buffer.
StopsBuffer(frame) ==
    /\ frame.event = ContentBlockStop
    /\ Addressed(test_reassembler.snapshot, frame.data)
    /\ Has(SlotOf(test_reassembler.snapshot, frame), "_partial_json")

\* C34. After a content_block_stop for a slot that holds a staging buffer
\* the slot holds no buffer: when the buffer parses the slot's input is
\* the parsed value, otherwise the slot is as before without the buffer;
\* and the events that follow are accumulated: the message_delta that
\* ends the stream puts its stop reason into the snapshot.
C34_StopReplacesBuffer ==
    /\ [](test_frames \in ToolStreams /\ test_fed = Len(test_frames) =>
            Get(test_reassembler.snapshot, "stop_reason", Null) = PyStr(EndTurn))
    /\ [][(FrameIsFed /\ StopsBuffer(NextFrame)) =>
            LET old == SlotOf(test_reassembler.snapshot, NextFrame)
                new == SlotOf(test_reassembler.snapshot', NextFrame)
                buffer == Get(old, "_partial_json", Null) IN
            /\ ~Has(new, "_partial_json")
            /\ new = DelItem(IF JsonParses(buffer.text)
                             THEN SetItem(old, "input", ParseJson(buffer.text))
                             ELSE old,
                             "_partial_json")]_vars


\* Every item of the dict `part` is in the dict `whole` with its value.
HoldsAll(whole, part) ==
    \A i \in 1..Len(part.items) :
        /\ Has(whole, part.items[i].name)
        /\ Get(whole, part.items[i].name, Null) = part.items[i].value

\* The dict without the keys of another.
Without(d, other) ==
    PyDict(SelectSeq(d.items, LAMBDA item : ~Has(other, item.name)))

\* C35. After a message_delta event on a started snapshot, every key of
\* its delta is at the snapshot's root with the delta's value, and the
\* snapshot's usage holds the event's value for every usage key of the
\* event and its previous value for every other usage key.
C35_TopDeltaMerges ==
    [][(FrameIsFed /\ NextFrame.event = MessageDelta
          /\ IsDict(test_reassembler.snapshot)) =>
          LET delta == Get(NextFrame.data, "delta", EmptyObject)
              usage == Get(NextFrame.data, "usage", EmptyObject)
              before == Get(test_reassembler.snapshot, "usage", EmptyObject)
              after == Get(test_reassembler.snapshot', "usage", EmptyObject) IN
          /\ HoldsAll(test_reassembler.snapshot', delta)
          /\ HoldsAll(after, usage)
          /\ HoldsAll(after, Without(before, usage))]_vars

\* The input token count of message_start is still in the usage after a
\* message_delta that carried only an output token count.
C35_Witness ==
    /\ test_frames \in DeltaStreams
    /\ test_fed = 2
    /\ ~Has(Get(test_frames[2].data, "usage", EmptyObject), "input_tokens")
    /\ Has(Get(test_frames[2].data, "delta", EmptyObject), "stop_reason")
    /\ Get(test_reassembler.snapshot, "usage", EmptyObject)
          = PyDict(<<Item("input_tokens", PyInt(3)), Item("output_tokens", PyInt(8))>>)


\* A message_start with a structured payload.
Starts(frame) == frame.event = MessageStart /\ IsDict(frame.data)

\* No message_start with a structured payload has been fed so far.
NotStarted == \A k \in 1..test_fed : ~Starts(test_frames[k])

\* The event types _accumulate knows.
Recognized ==
    {MessageStart, ContentBlockStart, ContentBlockDelta, ContentBlockStop,
     MessageDelta}

\* C36. The snapshot is None as long as no message_start with a structured
\* payload has been fed; an event of another type fed before it, and an
\* event of an unrecognized type at any time, is appended to the events
\* list and leaves the snapshot exactly as it was.
C36_NoneBeforeStart ==
    /\ [](NotStarted => Reconstruct(test_reassembler) = Null)
    /\ [][(FrameIsFed /\ ~Starts(NextFrame)
            /\ (NotStarted \/ NextFrame.event \notin Recognized)) =>
            /\ test_reassembler'.snapshot = test_reassembler.snapshot
            /\ test_reassembler'.events = Append(test_reassembler.events, NextFrame)]_vars

\* A content_block_start and a message_delta were fed before any
\* message_start: both are in the events list and the snapshot is None.
C36_Witness ==
    /\ test_frames \in EarlyStreams
    /\ test_fed = 2
    /\ test_frames[1].event = ContentBlockStart
    /\ test_frames[2].event = MessageDelta
    /\ Len(test_reassembler.events) = 2
    /\ Reconstruct(test_reassembler) = Null


\* The content blocks of a response body, none for a body without a
\* content list.
BlocksOf(body) ==
    IF IsDict(body) /\ IsList(Get(body, "content", Null))
    THEN {Get(body, "content", Null).elems[k] :
            k \in 1..Len(Get(body, "content", Null).elems)}
    ELSE {}

\* C37. No content block of the response body of a streamed call's record
\* holds the staging buffer "_partial_json", whether the stream ran to its
\* end, the upstream dropped it or the client went away.
C37_NoStagingBufferPersisted ==
    \A i \in 1..Len(log) :
        log[i].sse =>
            \A block \in BlocksOf(log[i].resp_body) :
                IsDict(block) => ~Has(block, "_partial_json")


\* C38. Any two records of the broadcaster's backlog stand in the trace
\* log in the same order, whatever the interleaving of the write() calls
\* and of the observers that hold the broadcaster's lock while they replay
\* the backlog.
C38_BacklogInLogOrder ==
    \A i, j \in 1..Len(records) :
        i < j => \E m, n \in 1..Len(log) :
                    m < n /\ log[m] = records[i] /\ log[n] = records[j]

\* Two write() calls have put their lines on the log, the later call
\* first, and waited in line for the lock of an observer that replayed;
\* then both records went to the backlog.
C38_Witness ==
    /\ Len(records) = NumCalls + 1
    /\ records[2].call # 1
    /\ \A c \in Calls : pc[c] = "done"
    /\ \E o \in Observers : got[o] # <<>>


\* The calls whose inbound body read has returned.
PastBodyRead == {c \in Calls : pc[c] \notin {"idle", "read_body"}}

\* C39. The turn counter is the number of requests whose inbound body read
\* has returned; a step leaves it as it is or adds one; every turn on the
\* log lies in 1..counter; a call answered 502 for an unreachable upstream
\* has a turn of its own, which no line of the log carries.
C39_CounterCountsBodyReads ==
    /\ [](turn_counter = Cardinality(PastBodyRead))
    /\ [](\A i \in 1..Len(log) : log[i].turn \in 1..turn_counter)
    /\ [](\A c \in Calls :
            client[c] = [status |-> 502, body |-> ErrorText] =>
                /\ turn[c] \in 1..turn_counter
                /\ \A d \in Calls \ {c} : turn[d] # turn[c]
                /\ \A i \in 1..Len(log) : log[i].turn # turn[c])
    /\ [][turn_counter' \in {turn_counter, turn_counter + 1}]_vars


\* The longest prefix of the bytes that ends with a blank line, the end of
\* the last frame whose terminator is among them.
Terminated(bytes) ==
    LET ends == {k \in 2..Len(bytes) : bytes[k] = LF /\ bytes[k - 1] = LF} IN
    IF ends = {} THEN <<>>
    ELSE SubSeq(bytes, 1, CHOOSE k \in ends : \A j \in ends : j <= k)

\* C40. The record of a streamed call holds the events and the body of
\* the frames whose terminating blank line was fed, and nothing of the
\* bytes fed after the last blank line; the client has been sent every
\* byte that was fed, those bytes included.
C40_UnterminatedFrameNotRecorded ==
    \A c \in Calls :
        \A i \in LinesOf(c) :
            log[i].sse =>
                LET bytes == Flatten(fed[c])
                    whole == FeedBytes(NewReassembler, Terminated(bytes)) IN
                /\ log[i].sse_events = whole.events
                /\ log[i].resp_body = Reconstruct(whole)
                /\ IsPrefix(bytes, Flatten(sent[c]))
                /\ Ended(c) => client[c].body.data = Flatten(sent[c])

\* A stream ended behind an event line and a data line that no blank line
\* followed: both lines were fed and sent to the client, and the record
\* holds the one event of the frame before them.
C40_Witness ==
    \E c \in Calls :
        /\ Ended(c)
        /\ fed[c] = <<StartFrame, OpenFrame>>
        /\ client[c].body.data = StartFrame \o OpenFrame
        /\ \E i \in LinesOf(c) :
              /\ Len(log[i].sse_events) = 1
              /\ FeedAll(fed[c]).current_event = Ping

====
